---- MODULE Spec2Model ----
(***************************************************************************)
(* A model of the koa core: the middleware composer (lib/koa-compose.js),  *)
(* the application's request dispatch (lib/application.js), the response   *)
(* facade's status/body/header rules (lib/response.js) and the request     *)
(* facade's url, proxy, ip and freshness getters (lib/request.js).         *)
(*                                                                         *)
(* Spec          the composer and the dispatcher: middleware registration, *)
(*               compose, and two in-flight pipeline invocations, each on  *)
(*               the context createContext built for it.                   *)
(* SpecResponse  one response facade driven by arbitrary setter calls.     *)
(* SpecMutators  every mutator of the facade, before and after the head    *)
(*               is sent.                                                  *)
(* SpecRedirect  redirect among status and body assignments.               *)
(* SpecRespond   respond(ctx) over the states middleware and the transport *)
(*               can leave a response in.                                  *)
(* SpecApp       the application's error channel.                          *)
(* SpecUrl       path and querystring assignments on one request.          *)
(* SpecProxy     host, hostname, protocol, ips and ip read under every     *)
(*               combination of proxy flag, socket and headers.            *)
(* SpecIp        request.ip read and assigned while the forwarded-for      *)
(*               header and the socket address change.                     *)
(* SpecFresh     fresh and stale read among status assignments.            *)
(***************************************************************************)
EXTENDS Integers, Sequences, FiniteSets, TLC

VARIABLES
  middleware,   \* app.middleware, the registered middleware (application.js:41)
  composed,     \* TRUE once compose has returned a pipeline
  stack,        \* the array the returned pipeline closes over (koa-compose.js:19)
  lastThrow,    \* what the last call of use / compose threw ("none" if it returned)
  index,        \* the cursor `index` of each invocation closure (koa-compose.js:35)
  mode,         \* per invocation: "idle", "app" (handleRequest) or "direct" (pipeline(ctx, next))
  pc,           \* per invocation and middleware: position in its body, 0 = not called
  last,         \* per invocation and middleware: the promise its latest next() returned
  prom,         \* per invocation and i: the promise of the first dispatch(i)
  log,          \* per context: the pre/post events the middleware recorded on it
  term,         \* per invocation: calls of the terminal continuation and the context it got
  outcome,      \* per invocation: what handleRequest did once the pipeline settled
  res,          \* the facades of one context with their raw request and response
  ctx,          \* per invocation: the context it runs on and its raw response's status code
  heap,         \* per object (state bag, facade): what middleware wrote into it
  seen,         \* per invocation and middleware: what it read on its context
  app           \* the application's error channel: listeners, silent flag, last emission

vars == <<middleware, composed, stack, lastThrow, index, mode, pc, last, prom,
          log, term, outcome, res, ctx, heap, seen, app>>

pipeVars == <<middleware, composed, stack, lastThrow, index, mode, pc, last,
              prom, log, term, outcome, ctx, heap, seen, app>>

----------------------------------------------------------------------------
(* Bounds *)

MaxMw == 2              \* longest middleware list registered or composed

Reqs == {1, 2}          \* the two in-flight invocations, each on its own context

MaxItems == 2           \* most items appended to one response header

MaxListeners == 2       \* most 'error' listeners attached to the application

\* longest request url followed
MaxUrl == 7

----------------------------------------------------------------------------
(* Middleware bodies.  A middleware is an arbitrary function (ctx, next);  *)
(* the model draws it from these shapes.  Every step of a body is its own  *)
(* action, so a body may be suspended (awaiting I/O) between any two steps.*)

NotFn == "notfn"        \* a value that is not a function

Kinds == {"pass", "stop", "throwSync", "reject", "twice", "catch", "nowait"}

Script(kind) ==
  CASE kind = "pass"      -> <<"pre", "next", "await", "post">>
    [] kind = "stop"      -> <<"pre">>
    [] kind = "reject"    -> <<"pre", "throw">>
    [] kind = "twice"     -> <<"pre", "next", "await", "next", "await", "post">>
    [] kind = "catch"     -> <<"pre", "next", "await", "post">>
    [] kind = "nowait"    -> <<"pre", "next", "post">>
    [] OTHER              -> <<>>

\* the body wraps its await in try/catch
Catches(kind) == kind = "catch"

\* the body throws before its first suspension point (a plain function that throws)
ThrowsSync(kind) == kind = "throwSync"

\* every next() the body makes is awaited or returned
Awaits(kind) == kind # "nowait"

----------------------------------------------------------------------------
(* Errors and promises *)

NoErr == <<"none", -1>>
MultiErr == <<"next() called multiple times", -1>>
NotFnErr == <<"TypeError: fn is not a function", -1>>
Thrown(k) == <<"thrown", k>>

Idle == [st |-> "idle", err |-> NoErr]
Pending == [st |-> "pending", err |-> NoErr]
Resolved == [st |-> "ok", err |-> NoErr]
Rejected(e) == [st |-> "err", err |-> e]

Settled(p) == p.st \in {"ok", "err"}

----------------------------------------------------------------------------
(* compose (koa-compose.js:19-25): the argument check *)

Arr(s) == [isArray |-> TRUE, elems |-> s]
NotArray == [isArray |-> FALSE, elems |-> <<>>]

IsFunction(v) == v \in Kinds

\* faulty variant: the check without the loop over the elements
ComposeCheckArrayOnly(arg) ==
  IF ~arg.isArray THEN "TypeError: Middleware stack must be an array!" ELSE "none"

\* the TypeError compose throws for arg, "none" when it accepts it
ComposeCheck(arg) ==
  IF ~arg.isArray THEN "TypeError: Middleware stack must be an array!"
  ELSE IF \E j \in 1..Len(arg.elems) : ~IsFunction(arg.elems[j])
       THEN "TypeError: Middleware must be composed of functions!"
       ELSE "none"

\* arguments of a direct call of the exported compose
DirectArgs ==
  {NotArray, Arr(<<>>), Arr(<<NotFn>>), Arr(<<"pass", NotFn>>),
   Arr(<<NotFn, "pass">>), Arr(<<"pass">>)}

----------------------------------------------------------------------------
(* dispatch (koa-compose.js:37-52) *)

\* faulty variant: one cursor for all invocations (index declared outside the
\* returned function)
IndexCellShared(r) == 1

\* the cell holding `index` for invocation r: declared inside the returned
\* function, hence one per call
IndexCell(r) == r

Undefined == "undefined"
Terminal == "terminal"

\* faulty variant: < for <=
NextCalledTwiceLax(i, idx) == i < idx

\* i <= index: this dispatch was already made (koa-compose.js:39)
NextCalledTwice(i, idx) == i <= idx

\* faulty variant: without line 43 the terminal continuation is never picked
FnAtNoTerminal(i, hasNext) ==
  IF i < Len(stack) THEN stack[i + 1] ELSE Undefined

\* the function dispatch(i) runs: middleware[i], or the terminal continuation
\* `next` after the last one (koa-compose.js:41-43)
FnAt(i, hasNext) ==
  IF i = Len(stack) THEN (IF hasNext THEN Terminal ELSE Undefined)
  ELSE IF i < Len(stack) THEN stack[i + 1] ELSE Undefined

\* faulty variant: a catch that drops the error
CallSwallow(fn, i) ==
  IF fn \in {Undefined, Terminal} THEN Resolved
  ELSE IF ~IsFunction(fn) \/ ThrowsSync(fn) THEN Resolved
  ELSE Pending

\* the promise dispatch(i) returns right after calling fn (koa-compose.js:45-51):
\* resolved without a function, rejected when the call throws, else the
\* promise of the function's own result
Call(fn, i) ==
  IF fn \in {Undefined, Terminal} THEN Resolved
  ELSE IF ~IsFunction(fn) THEN Rejected(NotFnErr)
  ELSE IF ThrowsSync(fn) THEN Rejected(Thrown(i))
  ELSE Pending

\* dispatch(i) in invocation r (koa-compose.js:37-52).  hasNext: the caller of
\* the pipeline supplied a terminal continuation.  idx, pcs, proms, tm are the
\* invocation's cursor, frames, promises and terminal record; the result
\* carries their new values and which promise the caller of next() got.
Dispatch(r, i, hasNext, idx, pcs, proms, tm) ==
  IF NextCalledTwice(i, idx)
  THEN [ret |-> "multi", idx |-> idx, pcs |-> pcs, proms |-> proms, tm |-> tm]
  ELSE
    LET fn == FnAt(i, hasNext)
        p == Call(fn, i)
    IN [ret |-> "down",
        idx |-> i,
        pcs |-> IF p = Pending THEN [pcs EXCEPT ![i] = 1] ELSE pcs,
        proms |-> [proms EXCEPT ![i] = p],
        tm |-> IF fn = Terminal THEN [calls |-> tm.calls + 1, ctx |-> r] ELSE tm]

----------------------------------------------------------------------------
(* createContext (application.js:185-198).  An object is named by the       *)
(* evaluation that created it: Obj(r, kind) is what createContext creates  *)
(* for request r, Obj(0, kind) belongs to the application.                 *)

ObjKinds == {"context", "request", "response", "state"}
Obj(r, kind) == <<r, kind>>
NoObject == <<0, "none">>
Objects == {Obj(r, kind) : r \in Reqs \cup {0}, kind \in ObjKinds}

\* faulty variant: without `context.state = {}` every context finds the
\* state bag of the application's context prototype
CreateContextShared(r) ==
  [context |-> Obj(r, "context"), request |-> Obj(r, "request"),
   response |-> Obj(r, "response"), state |-> Obj(0, "state"), statusCode |-> 200]

\* the context of request r over the raw response as the transport made it
CreateContext(r) ==
  [context |-> Obj(r, "context"), request |-> Obj(r, "request"),
   response |-> Obj(r, "response"), state |-> Obj(r, "state"), statusCode |-> 200]

\* the objects createContext has just created
Created(c) == {c.context, c.request, c.response, c.state}

\* no context yet, and the bare context a direct caller of the pipeline passes
NoContext ==
  [context |-> NoObject, request |-> NoObject, response |-> NoObject,
   state |-> NoObject, statusCode |-> 200]

CallerContext(r) == [NoContext EXCEPT !.context = Obj(r, "context")]

\* what a middleware finds in ctx.state and in the two facades
NotRead == [state |-> {}, facades |-> {}]

Read(c, h) ==
  [state |-> IF c.state = NoObject THEN {} ELSE h[c.state],
   facades |-> UNION {h[o] : o \in {c.request, c.response} \ {NoObject}}]

\* the heap after a middleware wrote mark into ctx.state and the two facades
Write(c, h, mark) ==
  [o \in Objects |->
     IF o \in {c.state, c.request, c.response} THEN h[o] \cup {mark} ELSE h[o]]

----------------------------------------------------------------------------
(* The error channel: the application is an event emitter                  *)
(* (application.js:30), onerror its default listener (208-219)             *)

\* errors and other values handed to the channel; status 0: no status
Errs == [isError : BOOLEAN, status : {0, 404, 500}, expose : BOOLEAN]

NoEmission ==
  [op |-> "none", err |-> [isError |-> TRUE, status |-> 0, expose |-> FALSE],
   had |-> <<>>, silent |-> FALSE, ran |-> <<>>, logged |-> 0, threw |-> "none"]

\* faulty variant: onerror without the silent test
OnerrorNoSilent(silent, err) ==
  IF ~err.isError THEN [logged |-> 0, threw |-> "TypeError: non-error thrown"]
  ELSE IF err.status = 404 \/ err.expose THEN [logged |-> 0, threw |-> "none"]
  ELSE [logged |-> 1, threw |-> "none"]

\* onerror(err) (application.js:208-219): how many errors it wrote to the
\* error stream and what it threw
Onerror(silent, err) ==
  IF ~err.isError THEN [logged |-> 0, threw |-> "TypeError: non-error thrown"]
  ELSE IF err.status = 404 \/ err.expose THEN [logged |-> 0, threw |-> "none"]
  ELSE IF silent THEN [logged |-> 0, threw |-> "none"]
  ELSE [logged |-> 1, threw |-> "none"]

\* emit('error', err): the listeners run in the order they were attached,
\* up to the first that throws
RECURSIVE RunListeners(_, _, _, _)
RunListeners(ls, silent, err, acc) ==
  IF ls = <<>> THEN acc
  ELSE LET o == IF Head(ls) = "default" THEN Onerror(silent, err)
                ELSE [logged |-> 0, threw |-> "none"]
           a == [acc EXCEPT !.ran = Append(@, Head(ls)),
                            !.logged = @ + o.logged,
                            !.threw = o.threw]
       IN IF o.threw # "none" THEN a ELSE RunListeners(Tail(ls), silent, err, a)

Idxs == 0..MaxMw

InitPipe ==
  /\ middleware = <<>>
  /\ composed = FALSE
  /\ stack = <<>>
  /\ lastThrow = "none"
  /\ index = [c \in Reqs |-> -1]
  /\ mode = [r \in Reqs |-> "idle"]
  /\ pc = [r \in Reqs |-> [i \in Idxs |-> 0]]
  /\ last = [r \in Reqs |-> [i \in Idxs |-> "none"]]
  /\ prom = [r \in Reqs |-> [i \in Idxs |-> Idle]]
  /\ log = [r \in Reqs |-> <<>>]
  /\ term = [r \in Reqs |-> [calls |-> 0, ctx |-> 0]]
  /\ outcome = [r \in Reqs |-> [st |-> "pending", err |-> NoErr, responds |-> 0]]
  /\ ctx = [r \in Reqs |-> NoContext]
  /\ heap = [o \in Objects |-> {}]
  /\ seen = [r \in Reqs |-> [i \in Idxs |-> NotRead]]
  /\ app = [listeners |-> <<>>, silent |-> FALSE, last |-> NoEmission]

----------------------------------------------------------------------------
(* Application: use (application.js:115-130), callback (141-161) *)

\* app.use(fn): a non-function throws and nothing is pushed.  The model
\* registers middleware before the pipeline is composed, up to MaxMw of them.
Use(fn) ==
  /\ ~composed
  /\ Len(middleware) < MaxMw
  /\ IF ~IsFunction(fn)
     THEN /\ lastThrow' = "TypeError: middleware must be a function!"
          /\ UNCHANGED middleware
     ELSE /\ lastThrow' = "none"
          /\ middleware' = Append(middleware, fn)
  /\ UNCHANGED <<composed, stack, index, mode, pc, last, prom, log, term, outcome, res,
                 ctx, heap, seen, app>>

\* compose(arg): throws before returning a pipeline, or returns one over arg
Compose(arg) ==
  /\ ~composed
  /\ lastThrow' = ComposeCheck(arg)
  /\ IF ComposeCheck(arg) = "none"
     THEN composed' = TRUE /\ stack' = arg.elems
     ELSE UNCHANGED <<composed, stack>>
  /\ UNCHANGED <<middleware, index, mode, pc, last, prom, log, term, outcome, res,
                 ctx, heap, seen>>

\* faulty variant: the default handler is attached whatever is listening
AttachDefaultAlways(ls) == Append(ls, "default")

\* if (!this.listenerCount('error')) this.on('error', this.onerror)
\* (application.js:149)
AttachDefault(ls) == IF Len(ls) = 0 THEN Append(ls, "default") ELSE ls

\* app.callback(): composes the registered middleware, then attaches the
\* default error handler when nothing listens for 'error'
Callback ==
  /\ Compose(Arr(middleware))
  /\ app' = IF ComposeCheck(Arr(middleware)) = "none"
            THEN [app EXCEPT !.listeners = AttachDefault(@)]
            ELSE app

\* a direct call of the exported compose on any argument
ComposeDirect == (\E arg \in DirectArgs : Compose(arg)) /\ UNCHANGED app

----------------------------------------------------------------------------
(* One invocation of the pipeline *)

\* the returned function (koa-compose.js:33-36): a fresh cursor, then dispatch(0).
\* "app": called by handleRequest as fnMiddleware(ctx) (application.js:169-175);
\* "direct": called as pipeline(ctx, next) with a terminal continuation.
Invoke(r, m) ==
  /\ composed
  /\ mode[r] = "idle"
  /\ mode' = [mode EXCEPT ![r] = m]
  /\ LET d == Dispatch(r, 0, m = "direct", -1, pc[r], prom[r], term[r])
     IN /\ index' = [index EXCEPT ![IndexCell(r)] = d.idx]
        /\ pc' = [pc EXCEPT ![r] = d.pcs]
        /\ prom' = [prom EXCEPT ![r] = d.proms]
        /\ term' = [term EXCEPT ![r] = d.tm]
  /\ IF m = "app"
     THEN LET c == CreateContext(r)
          IN /\ ctx' = [ctx EXCEPT ![r] = [c EXCEPT !.statusCode = 404]]
             /\ heap' = [o \in Objects |-> IF o \in Created(c) THEN {} ELSE heap[o]]
     ELSE /\ ctx' = [ctx EXCEPT ![r] = CallerContext(r)]
          /\ UNCHANGED heap
  /\ UNCHANGED <<middleware, composed, stack, lastThrow, last, log, outcome, res, seen, app>>

\* faulty variant: the promise of middleware k resolves at its first step
AdvanceResolvesEarly(r, k, pcs, proms) ==
  [pcs |-> [pcs EXCEPT ![k] = @ + 1], proms |-> [proms EXCEPT ![k] = Resolved]]

\* the frame of middleware k after its step: returning resolves its promise
Advance(r, k, pcs, proms) ==
  LET len == Len(Script(stack[k + 1]))
  IN [pcs |-> [pcs EXCEPT ![k] = @ + 1],
      proms |-> IF pcs[k] + 1 > len THEN [proms EXCEPT ![k] = Resolved] ELSE proms]

Running(r, k) ==
  /\ mode[r] # "idle"
  /\ k < Len(stack)
  /\ prom[r][k].st = "pending"
  /\ pc[r][k] \in 1..Len(Script(stack[k + 1]))

Op(r, k) == Script(stack[k + 1])[pc[r][k]]

\* middleware k records its pre- or post-next code on the context; its
\* pre-next code also reads ctx.state and the facades and leaves its mark there
StepLog(r, k) ==
  /\ Running(r, k)
  /\ Op(r, k) \in {"pre", "post"}
  /\ log' = [log EXCEPT ![r] = Append(@, <<Op(r, k), k>>)]
  /\ LET a == Advance(r, k, pc[r], prom[r])
     IN pc' = [pc EXCEPT ![r] = a.pcs] /\ prom' = [prom EXCEPT ![r] = a.proms]
  /\ IF Op(r, k) = "pre"
     THEN /\ seen' = [seen EXCEPT ![r][k] = Read(ctx[r], heap)]
          /\ heap' = Write(ctx[r], heap, <<r, k>>)
     ELSE UNCHANGED <<heap, seen>>
  /\ UNCHANGED <<middleware, composed, stack, lastThrow, index, mode, last, term, outcome, res,
                 ctx, app>>

\* middleware k calls next(), i.e. dispatch(k + 1)
StepNext(r, k) ==
  /\ Running(r, k)
  /\ Op(r, k) = "next"
  /\ LET d == Dispatch(r, k + 1, mode[r] = "direct", index[IndexCell(r)],
                       pc[r], prom[r], term[r])
         a == Advance(r, k, d.pcs, d.proms)
     IN /\ index' = [index EXCEPT ![IndexCell(r)] = d.idx]
        /\ pc' = [pc EXCEPT ![r] = a.pcs]
        /\ prom' = [prom EXCEPT ![r] = a.proms]
        /\ term' = [term EXCEPT ![r] = d.tm]
        /\ last' = [last EXCEPT ![r][k] = d.ret]
  /\ UNCHANGED <<middleware, composed, stack, lastThrow, mode, log, outcome, res, ctx, heap, seen, app>>

\* faulty variant: next() returns a resolved promise, not the callee's
AwaitedEarly(r, k) == Resolved

\* the promise middleware k's latest next() returned
Awaited(r, k) == IF last[r][k] = "multi" THEN Rejected(MultiErr) ELSE prom[r][k + 1]

\* middleware k resumes from awaiting that promise
StepAwait(r, k) ==
  /\ Running(r, k)
  /\ Op(r, k) = "await"
  /\ Settled(Awaited(r, k))
  /\ IF Awaited(r, k).st = "ok" \/ Catches(stack[k + 1])
     THEN LET a == Advance(r, k, pc[r], prom[r])
          IN pc' = [pc EXCEPT ![r] = a.pcs] /\ prom' = [prom EXCEPT ![r] = a.proms]
     ELSE /\ prom' = [prom EXCEPT ![r][k] = Rejected(Awaited(r, k).err)]
          /\ UNCHANGED pc
  /\ UNCHANGED <<middleware, composed, stack, lastThrow, index, mode, last, log, term, outcome, res, ctx, heap, seen, app>>

\* middleware k throws inside its async body: its promise rejects
StepThrow(r, k) ==
  /\ Running(r, k)
  /\ Op(r, k) = "throw"
  /\ prom' = [prom EXCEPT ![r][k] = Rejected(Thrown(k))]
  /\ UNCHANGED <<middleware, composed, stack, lastThrow, index, mode, pc, last, log, term, outcome, res, ctx, heap, seen, app>>

\* faulty variant: respond runs whether the pipeline resolved or rejected
HandleSettledAlways(r) ==
  /\ mode[r] = "app"
  /\ outcome[r].st = "pending"
  /\ Settled(prom[r][0])
  /\ outcome' = [outcome EXCEPT ![r] =
       [st |-> "responded", err |-> NoErr, responds |-> @.responds + 1]]
  /\ UNCHANGED <<middleware, composed, stack, lastThrow, index, mode, pc, last, prom, log, term, res, ctx, heap, seen, app>>

\* faulty variant: .then(handleResponse) without .catch(onerror)
HandleSettledNoCatch(r) ==
  /\ mode[r] = "app"
  /\ outcome[r].st = "pending"
  /\ Settled(prom[r][0])
  /\ outcome' = [outcome EXCEPT ![r] =
       IF prom[r][0].st = "ok"
       THEN [st |-> "responded", err |-> NoErr, responds |-> @.responds + 1]
       ELSE [st |-> "unhandled", err |-> prom[r][0].err, responds |-> @.responds]]
  /\ UNCHANGED <<middleware, composed, stack, lastThrow, index, mode, pc, last, prom, log, term, res, ctx, heap, seen, app>>

\* handleRequest's .then(handleResponse).catch(onerror) (application.js:172-175)
HandleSettled(r) ==
  /\ mode[r] = "app"
  /\ outcome[r].st = "pending"
  /\ Settled(prom[r][0])
  /\ outcome' = [outcome EXCEPT ![r] =
       IF prom[r][0].st = "ok"
       THEN [st |-> "responded", err |-> NoErr, responds |-> @.responds + 1]
       ELSE [st |-> "onerror", err |-> prom[r][0].err, responds |-> @.responds]]
  /\ UNCHANGED <<middleware, composed, stack, lastThrow, index, mode, pc, last, prom, log, term, res, ctx, heap, seen, app>>

Mws == 0..(MaxMw - 1)

NextPipe ==
  \/ \E fn \in Kinds \cup {NotFn} : Use(fn)
  \/ Callback
  \/ ComposeDirect
  \/ \E r \in Reqs, m \in {"app", "direct"} : Invoke(r, m)
  \/ \E r \in Reqs, k \in Mws : StepLog(r, k)
  \/ \E r \in Reqs, k \in Mws : StepNext(r, k)
  \/ \E r \in Reqs, k \in Mws : StepAwait(r, k)
  \/ \E r \in Reqs, k \in Mws : StepThrow(r, k)
  \/ \E r \in Reqs : HandleSettled(r)

----------------------------------------------------------------------------
(* Response facade (lib/response.js) over one raw response.                *)
(* res.f is the facade with its raw response; res.op, res.arg and res.pre  *)
(* record the last operation applied, its argument and the facade before.  *)

\* body values: a tag and the characters (string), bytes (buffer) or JSON text
Body(t, s) == [t |-> t, s |-> s]
NullBody == Body("null", <<>>)
UndefinedBody == Body("undefined", <<>>)
StreamBody == Body("stream", <<"s1">>)

Strings == {<<>>, <<"<", "p">>, <<" ", "<">>, <<"U+00E9", "<">>}

Bodies ==
  {NullBody, UndefinedBody, StreamBody}
    \cup {Body("string", s) : s \in Strings}
    \cup {Body("buffer", <<"b", "b">>)}
    \cup {Body("json", <<"{", "}">>), Body("json", <<"0">>)}

\* null == val
IsNullish(b) == b.t \in {"null", "undefined"}

\* JavaScript truthiness of a body value
Truthy(b) ==
  CASE b.t \in {"null", "undefined"} -> FALSE
    [] b.t = "string" -> b.s # <<>>
    [] b.t = "json" -> b.s \notin {<<"0">>, <<"f", "a", "l", "s", "e">>}
    [] OTHER -> TRUE

\* UTF-8 bytes of a character, or of one of the literal pieces the code
\* builds its own strings from
CharBytes(c) ==
  CASE c = "U+00E9" -> 2
    [] c = "Redirecting to " -> 15
    [] c = "Redirecting to <a href=\"" -> 24
    [] c = "\">" -> 2
    [] c = "</a>." -> 5
    [] c \in {"&amp;", "&#39;"} -> 5
    [] c \in {"&lt;", "&gt;"} -> 4
    [] c = "&quot;" -> 6
    [] c = "http://x" -> 8
    [] c = "OK" -> 2
    [] c = "Found" -> 5
    [] c = "Not Found" -> 9
    [] c = "No Content" -> 10
    [] c = "Reset Content" -> 13
    [] c = "Not Modified" -> 12
    [] OTHER -> 1

RECURSIVE ByteLength(_)
ByteLength(s) == IF s = <<>> THEN 0 ELSE CharBytes(Head(s)) + ByteLength(Tail(s))

\* /^\s*</.test(val)
RECURSIVE LooksLikeHtml(_)
LooksLikeHtml(s) ==
  IF s = <<>> THEN FALSE
  ELSE IF Head(s) = " " THEN LooksLikeHtml(Tail(s))
  ELSE Head(s) = "<"

\* statuses.empty, statuses.redirect and statuses[code]
EmptyCodes == {204, 205, 304}
RedirectCodes == {300, 301, 302, 303, 305, 307, 308}

StatusMessage(code) ==
  CASE code = 200 -> "OK"
    [] code = 204 -> "No Content"
    [] code = 205 -> "Reset Content"
    [] code = 302 -> "Found"
    [] code = 304 -> "Not Modified"
    [] code = 404 -> "Not Found"
    [] OTHER -> Undefined

Absent == "<absent>"
HeaderFields == {"content-type", "content-length", "transfer-encoding"}

\* response headers the model keeps as a sequence, <<>> when absent: Location
\* (the characters of the URL), Vary and Link (the items of the list)
SeqFields == {"location", "vary", "link"}

\* what res.end was called with when it was called without a chunk
NoPayload == Body("none", <<>>)

\* getType(type) of cache-content-type: the full Content-Type or false
NoType == "<false>"
GetType(t) ==
  CASE t = "html" -> "text/html; charset=utf-8"
    [] t = "text" -> "text/plain; charset=utf-8"
    [] t = "bin" -> "application/octet-stream"
    [] t = "json" -> "application/json; charset=utf-8"
    [] t = "png" -> "image/png"
    [] t \in {"text/html; charset=utf-8", "text/plain; charset=utf-8"} -> t
    [] OTHER -> NoType

\* get headerSent (response.js:256-259)
HeaderSent(f) == f.headersSent

\* faulty variant: set without the headerSent test
SetUnguarded(f, field, val) == [f EXCEPT !.header[field] = val]

\* set(field, val) (response.js:502-518)
Set(f, field, val) ==
  IF HeaderSent(f) THEN f ELSE [f EXCEPT !.header[field] = val]

\* faulty variant: remove leaves the header in place
RemoveNothing(f, field) == f

\* remove(field) (response.js:559-564)
Remove(f, field) ==
  IF HeaderSent(f) THEN f ELSE [f EXCEPT !.header[field] = Absent]

\* set type (response.js:358-370)
SetType(f, t) ==
  IF GetType(t) # NoType THEN Set(f, "content-type", GetType(t))
  ELSE Remove(f, "content-type")

\* set length (response.js:218-221)
SetLength(f, n) == Set(f, "content-length", ToString(n))

\* status arguments: an integer, or a number that is not an integer
Code(n) == [isInt |-> TRUE, n |-> n]
NonInteger == [isInt |-> FALSE, n |-> 200]

RECURSIVE SetStatus(_, _), SetBody(_, _)

\* faulty variant: the status setter without its last line, the body is kept
SetStatusKeepBody(f, code) ==
  IF HeaderSent(f) THEN f
  ELSE IF ~code.isInt THEN [f EXCEPT !.threw = "AssertionError: status code must be a number"]
  ELSE IF ~(code.n >= 100 /\ code.n <= 999)
  THEN [f EXCEPT !.threw = "AssertionError: invalid status code"]
  ELSE [f EXCEPT !.explicitStatus = TRUE,
                 !.statusCode = code.n,
                 !.statusMessage = IF f.httpVersionMajor < 2
                                   THEN StatusMessage(code.n) ELSE @]

\* faulty variant: the status setter without its range assertion
SetStatusNoRange(f, code) ==
  IF HeaderSent(f) THEN f
  ELSE IF ~code.isInt THEN [f EXCEPT !.threw = "AssertionError: status code must be a number"]
  ELSE LET g == [f EXCEPT !.explicitStatus = TRUE,
                          !.statusCode = code.n,
                          !.statusMessage = IF f.httpVersionMajor < 2
                                            THEN StatusMessage(code.n) ELSE @]
       IN IF Truthy(g.body) /\ code.n \in EmptyCodes THEN SetBody(g, NullBody) ELSE g

\* set status (response.js:88-104)
SetStatus(f, code) ==
  IF HeaderSent(f) THEN f
  ELSE IF ~code.isInt THEN [f EXCEPT !.threw = "AssertionError: status code must be a number"]
  ELSE IF ~(code.n >= 100 /\ code.n <= 999)
  THEN [f EXCEPT !.threw = "AssertionError: invalid status code"]
  ELSE LET g == [f EXCEPT !.explicitStatus = TRUE,
                          !.statusCode = code.n,
                          !.statusMessage = IF f.httpVersionMajor < 2
                                            THEN StatusMessage(code.n) ELSE @]
       IN IF Truthy(g.body) /\ code.n \in EmptyCodes THEN SetBody(g, NullBody) ELSE g

\* faulty variant: a stream body never removes Content-Length
SetBodyStreamKeepsLength(f, val) ==
  LET f1 == [f EXCEPT !.body = val]
  IN IF IsNullish(val)
     THEN LET f2 == IF f1.statusCode \notin EmptyCodes THEN SetStatus(f1, Code(204)) ELSE f1
          IN Remove(Remove(Remove(f2, "content-type"), "content-length"),
                    "transfer-encoding")
     ELSE
       LET f2 == IF ~f1.explicitStatus THEN SetStatus(f1, Code(200)) ELSE f1
           setType == f2.header["content-type"] = Absent
       IN CASE val.t = "string" ->
                 SetLength(IF setType
                           THEN SetType(f2, IF LooksLikeHtml(val.s) THEN "html" ELSE "text")
                           ELSE f2,
                           ByteLength(val.s))
            [] val.t = "buffer" ->
                 SetLength(IF setType THEN SetType(f2, "bin") ELSE f2, Len(val.s))
            [] val.t = "stream" -> IF setType THEN SetType(f2, "bin") ELSE f2
            [] OTHER ->
                 SetType(Remove(f2, "content-length"), "json")

\* set body (response.js:149-209)
SetBody(f, val) ==
  LET original == f.body
      f1 == [f EXCEPT !.body = val]
  IN IF IsNullish(val)
     THEN LET f2 == IF f1.statusCode \notin EmptyCodes THEN SetStatus(f1, Code(204)) ELSE f1
          IN Remove(Remove(Remove(f2, "content-type"), "content-length"),
                    "transfer-encoding")
     ELSE
       LET f2 == IF ~f1.explicitStatus THEN SetStatus(f1, Code(200)) ELSE f1
           setType == f2.header["content-type"] = Absent
       IN CASE val.t = "string" ->
                 SetLength(IF setType
                           THEN SetType(f2, IF LooksLikeHtml(val.s) THEN "html" ELSE "text")
                           ELSE f2,
                           ByteLength(val.s))
            [] val.t = "buffer" ->
                 SetLength(IF setType THEN SetType(f2, "bin") ELSE f2, Len(val.s))
            [] val.t = "stream" ->
                 LET f3 == IF ~IsNullish(original) /\ original # val
                           THEN Remove(f2, "content-length") ELSE f2
                 IN IF setType THEN SetType(f3, "bin") ELSE f3
            [] OTHER ->
                 SetType(Remove(f2, "content-length"), "json")

\* get(field) of the response (response.js:482-484): '' when absent
Get(f, field) == f.hseq[field]

\* set(field, val) with a list for val (response.js:502-518)
SetSeq(f, field, vals) ==
  IF HeaderSent(f) THEN f ELSE [f EXCEPT !.hseq[field] = vals]

\* append(field, val) (response.js:536-550)
AppendHeader(f, field, val) ==
  LET prev == Get(f, field)
  IN SetSeq(f, field, IF prev # <<>> THEN prev \o <<val>> ELSE <<val>>)

\* vary(field) (response.js:33-39); vary(res, field) of the vary package adds
\* the field to the Vary header unless it is listed already
VaryOn(f, field) ==
  IF HeaderSent(f) THEN f
  ELSE LET prev == f.hseq["vary"]
       IN [f EXCEPT !.hseq["vary"] =
             IF \E j \in 1..Len(prev) : prev[j] \in {field, "*"} THEN prev
             ELSE Append(prev, field)]

\* get(field) of the request (request.js:730-740): Referrer and Referer are
\* interchangeable
ReqGet(f, field) ==
  IF field \in {"referer", "referrer"}
  THEN (IF f.reqHeaders["referrer"] # <<>> THEN f.reqHeaders["referrer"]
        ELSE f.reqHeaders["referer"])
  ELSE f.reqHeaders[field]

\* escape(url) of the escape-html package
EscapeChar(c) ==
  CASE c = "&" -> "&amp;"
    [] c = "<" -> "&lt;"
    [] c = ">" -> "&gt;"
    [] c = "\"" -> "&quot;"
    [] c = "'" -> "&#39;"
    [] OTHER -> c

RECURSIVE EscapeHtml(_)
EscapeHtml(s) ==
  IF s = <<>> THEN <<>> ELSE <<EscapeChar(Head(s))>> \o EscapeHtml(Tail(s))

\* the literal url 'back', and an alt that was not passed
Back == <<"back">>
NoAlt == <<>>

\* faulty variant: 'back' without the alt fallback
TargetNoAlt(f, url, alt) ==
  IF url = Back
  THEN (IF ReqGet(f, "referrer") # <<>> THEN ReqGet(f, "referrer") ELSE <<"/">>)
  ELSE url

\* the URL redirect sends the client to (response.js:298)
Target(f, url, alt) ==
  IF url = Back
  THEN (IF ReqGet(f, "referrer") # <<>> THEN ReqGet(f, "referrer")
        ELSE IF alt # <<>> THEN alt ELSE <<"/">>)
  ELSE url

HtmlNotice(url) ==
  <<"Redirecting to <a href=\"">> \o EscapeHtml(url) \o <<"\">">> \o EscapeHtml(url)
    \o <<"</a>.">>

TextNotice(url) == <<"Redirecting to ">> \o url \o <<".">>

\* redirect(url, alt) (response.js:295-324)
Redirect(f, url, alt) ==
  LET target == Target(f, url, alt)
      f1 == SetSeq(f, "location", target)
      f2 == IF f1.statusCode \notin RedirectCodes THEN SetStatus(f1, Code(302)) ELSE f1
  IN IF f.acceptsHtml
     THEN SetBody(SetType(f2, "text/html; charset=utf-8"),
                  Body("string", HtmlNotice(target)))
     ELSE SetBody(SetType(f2, "text/plain; charset=utf-8"),
                  Body("string", TextNotice(target)))

\* get message (response.js:113-116)
Message(f) ==
  IF f.statusMessage # Undefined THEN f.statusMessage ELSE StatusMessage(f.statusCode)

\* String(code)
RECURSIVE Digits(_)
Digits(n) == IF n < 10 THEN <<ToString(n)>> ELSE Digits(n \div 10) \o <<ToString(n % 10)>>

\* faulty variant: writable without the res.finished test
WritableNoFinished(f) ==
  IF f.socket = "none" THEN TRUE ELSE f.socket = "writable"

\* get writable (response.js:575-585)
Writable(f) ==
  IF f.finished THEN FALSE
  ELSE IF f.socket = "none" THEN TRUE
  ELSE f.socket = "writable"

\* faulty variant: every value that is no string, stream or buffer
IsJSONFalsy(b) == ~IsNullish(b) /\ b.t = "json"

\* isJSON(body) of koa-is-json: a truthy value that is no string, stream or buffer
IsJSON(b) == Truthy(b) /\ b.t = "json"

\* res.end(chunk): the head goes out if it has not, and the response is finished
End(f, chunk) ==
  [f EXCEPT !.ended = @ + 1, !.payload = chunk, !.headersSent = TRUE, !.finished = TRUE]

\* faulty variant: the response is ended as soon as the pipe is set up
PipeThenEnd(f) == End([f EXCEPT !.piped = TRUE], NoPayload)

\* body.pipe(res)
Pipe(f) == [f EXCEPT !.piped = TRUE]

\* faulty variant: the numeric code whatever the protocol version
StatusBodyCodeOnly(f) == Digits(f.statusCode)

\* the body respond makes up when there is none (application.js:252-258)
StatusBody(f) ==
  IF f.httpVersionMajor >= 2 THEN Digits(f.statusCode)
  ELSE IF Message(f) # Undefined THEN <<Message(f)>>
  ELSE Digits(f.statusCode)

\* faulty variant: respond without the branch for 204, 205 and 304
RespondKeepBody(f) ==
  IF ~f.respond THEN f
  ELSE IF ~Writable(f) THEN f
  ELSE IF f.method = "HEAD" THEN End(f, NoPayload)
  ELSE IF IsNullish(f.body) THEN End(f, Body("string", Digits(f.statusCode)))
  ELSE End(f, f.body)

\* respond(ctx) (application.js:226-278)
Respond(f) ==
  IF ~f.respond THEN f
  ELSE IF ~Writable(f) THEN f
  ELSE
    LET body == f.body
        code == f.statusCode
    IN IF code \in EmptyCodes THEN End(SetBody(f, NullBody), NoPayload)
       ELSE IF f.method = "HEAD"
       THEN End(IF ~f.headersSent /\ IsJSON(body) THEN SetLength(f, ByteLength(body.s))
                ELSE f,
                NoPayload)
       ELSE IF IsNullish(body)
       THEN LET text == StatusBody(f)
            IN End(IF ~f.headersSent
                   THEN SetLength(SetType(f, "text"), ByteLength(text))
                   ELSE f,
                   Body("string", text))
       ELSE IF body.t \in {"buffer", "string"} THEN End(f, body)
       ELSE IF body.t = "stream" THEN Pipe(f)
       ELSE End(IF ~f.headersSent THEN SetLength(f, ByteLength(body.s)) ELSE f,
                Body("string", body.s))

\* the facade createContext builds over a new raw response, after
\* handleRequest set res.statusCode = 404 (application.js:171, 185-198)
NewFacade(major) ==
  [statusCode |-> 404, statusMessage |-> Undefined, headersSent |-> FALSE,
   httpVersionMajor |-> major, explicitStatus |-> FALSE, body |-> UndefinedBody,
   header |-> [h \in HeaderFields |-> Absent], threw |-> "none",
   userStatus |-> FALSE, byUser |-> FALSE,
   hseq |-> [h \in SeqFields |-> <<>>],
   reqHeaders |-> [h \in {"referrer", "referer"} |-> <<>>],
   acceptsHtml |-> FALSE, method |-> "GET", respond |-> TRUE,
   finished |-> FALSE, socket |-> "none",
   ended |-> 0, payload |-> NoPayload, piped |-> FALSE]

\* the facade as an operation finds it: nothing thrown yet
Before == [res.f EXCEPT !.threw = "none"]

Snapshot(op, arg, f) == [f |-> f, op |-> op, arg |-> arg, pre |-> Before]

StatusArgs == {Code(200), Code(204), Code(205), Code(304), Code(302),
               Code(99), Code(1000), NonInteger}

TypeArgs == {"png", "bogus"}

\* the status setter accepts code: headers not sent and both assertions pass
Accepted(f, code) == ~HeaderSent(f) /\ code.isInt /\ code.n >= 100 /\ code.n <= 999

\* bookkeeping, not program state: userStatus = middleware has assigned a
\* status to this response; byUser = the current status code is the one
\* middleware assigned last
Track(f, g, user) ==
  [g EXCEPT !.userStatus = f.userStatus \/ user,
            !.byUser = user \/ (f.byUser /\ g.statusCode = f.statusCode)]

\* ctx.status = code, by middleware
RSetStatus(code) ==
  /\ res' = Snapshot("status", code,
                     Track(Before, SetStatus(Before, code), Accepted(Before, code)))
  /\ UNCHANGED pipeVars

\* ctx.body = val
RSetBody(val) ==
  /\ res' = Snapshot("body", val, Track(Before, SetBody(Before, val), FALSE))
  /\ UNCHANGED pipeVars

\* ctx.type = t
RSetType(t) ==
  /\ res' = Snapshot("type", t, SetType(Before, t))
  /\ UNCHANGED pipeVars

\* ctx.set('Transfer-Encoding', 'chunked')
RSetChunked ==
  /\ res' = Snapshot("set", "transfer-encoding",
                     Set(Before, "transfer-encoding", "chunked"))
  /\ UNCHANGED pipeVars

\* the transport writes the head (res.flushHeaders / res.writeHead): one way
FlushHeaders ==
  /\ ~res.f.headersSent
  /\ res' = Snapshot("flush", "none", [Before EXCEPT !.headersSent = TRUE])
  /\ UNCHANGED pipeVars

InitRes == [f |-> NewFacade(1), op |-> "new", arg |-> "none", pre |-> NewFacade(1)]

InitResponse ==
  /\ InitPipe
  /\ \E major \in {1, 2} :
       res = [f |-> NewFacade(major), op |-> "new", arg |-> "none", pre |-> NewFacade(major)]

NextResponse ==
  \/ \E code \in StatusArgs : RSetStatus(code)
  \/ \E val \in Bodies : RSetBody(val)
  \/ \E t \in TypeArgs : RSetType(t)
  \/ RSetChunked
  \/ FlushHeaders

SpecResponse == InitResponse /\ [][NextResponse]_vars

----------------------------------------------------------------------------
(* The facade's mutators called in any order on one response               *)
(* (SpecMutators), and redirect among status and body assignments          *)
(* (SpecRedirect)                                                          *)

\* ctx.length = n
RSetLength(n) ==
  /\ res' = Snapshot("length", n, SetLength(Before, n))
  /\ UNCHANGED pipeVars

\* ctx.append('Link', val); the model stops at MaxItems items
RAppend(val) ==
  /\ Len(res.f.hseq["link"]) < MaxItems
  /\ res' = Snapshot("append", val, AppendHeader(Before, "link", val))
  /\ UNCHANGED pipeVars

\* ctx.remove(field)
RRemove(field) ==
  /\ res' = Snapshot("remove", field, Remove(Before, field))
  /\ UNCHANGED pipeVars

\* ctx.vary(field)
RVary(field) ==
  /\ res' = Snapshot("vary", field, VaryOn(Before, field))
  /\ UNCHANGED pipeVars

\* ctx.redirect(url, alt)
RRedirect(url, alt) ==
  /\ res' = Snapshot("redirect", <<url, alt>>,
                     Track(Before, Redirect(Before, url, alt),
                           ~HeaderSent(Before) /\ Before.statusCode \notin RedirectCodes))
  /\ UNCHANGED pipeVars

\* the requests the redirects answer: with or without a referrer, under
\* either spelling of the header, from a client that accepts html or not
Referrers ==
  {[h \in {"referrer", "referer"} |-> <<>>],
   [h \in {"referrer", "referer"} |-> IF h = "referrer" THEN <<"http://x">> ELSE <<>>],
   [h \in {"referrer", "referer"} |-> IF h = "referer" THEN <<"h", "'">> ELSE <<>>]}

MutStatusArgs == {Code(301), Code(204), Code(1000), NonInteger}
MutBodies == {NullBody, Body("string", <<"<", "p">>), Body("json", <<"{", "}">>)}

NextMutators ==
  \/ \E code \in MutStatusArgs : RSetStatus(code)
  \/ \E val \in MutBodies : RSetBody(val)
  \/ RSetType("png")
  \/ RSetLength(7)
  \/ RSetChunked
  \/ RAppend("a")
  \/ RRemove("content-type")
  \/ RVary("accept")
  \/ FlushHeaders

SpecMutators == InitResponse /\ [][NextMutators]_vars

InitRedirect ==
  /\ InitPipe
  /\ \E hs \in Referrers, html \in BOOLEAN :
       LET f == [NewFacade(1) EXCEPT !.reqHeaders = hs, !.acceptsHtml = html]
       IN res = [f |-> f, op |-> "new", arg |-> "none", pre |-> f]

Urls == {Back, <<"/", "&", "<">>}
Alts == {NoAlt, <<"/", "a">>}

RedirStatusArgs == {Code(301), Code(204), Code(999), Code(1000), Code(99), NonInteger}

NextRedirect ==
  \/ \E code \in RedirStatusArgs : RSetStatus(code)
  \/ \E val \in MutBodies : RSetBody(val)
  \/ \E url \in Urls, alt \in Alts : RRedirect(url, alt)
  \/ FlushHeaders

SpecRedirect == InitRedirect /\ [][NextRedirect]_vars

----------------------------------------------------------------------------
(* respond(ctx) after middleware assigned status and body, over a          *)
(* transport that may have sent the head, finished the response or lost    *)
(* its socket (SpecRespond)                                                *)

\* ctx.respond = false
RBypass ==
  /\ res.f.respond
  /\ res' = Snapshot("bypass", "none", [Before EXCEPT !.respond = FALSE])
  /\ UNCHANGED pipeVars

\* the response was ended outside respond: res.finished is set
RFinish ==
  /\ ~res.f.finished
  /\ res' = Snapshot("finish", "none", [Before EXCEPT !.finished = TRUE])
  /\ UNCHANGED pipeVars

\* the transport attaches a socket to the response, or the socket stops
\* being writable
RSocket(sock) ==
  /\ res.f.socket # sock
  /\ res.f.socket = "closed" => sock # "writable"
  /\ res' = Snapshot("socket", sock, [Before EXCEPT !.socket = sock])
  /\ UNCHANGED pipeVars

\* respond(ctx), as handleRequest runs it or called again
RRespond ==
  /\ res' = Snapshot("respond", "none", Respond(Before))
  /\ UNCHANGED pipeVars

InitRespond ==
  /\ InitPipe
  /\ \E major \in {1, 2}, method \in {"GET", "HEAD"} :
       LET f == [NewFacade(major) EXCEPT !.method = method]
       IN res = [f |-> f, op |-> "new", arg |-> "none", pre |-> f]

RespondStatusArgs == {Code(200), Code(204), Code(304), Code(299)}
RespondBodies == {NullBody, StreamBody, Body("string", <<"<", "p">>),
                  Body("json", <<"{", "}">>), Body("json", <<"0">>)}

NextRespond ==
  \/ \E code \in RespondStatusArgs : RSetStatus(code)
  \/ \E val \in RespondBodies : RSetBody(val)
  \/ FlushHeaders
  \/ RBypass
  \/ RFinish
  \/ \E sock \in {"writable", "closed"} : RSocket(sock)
  \/ RRespond

SpecRespond == InitRespond /\ [][NextRespond]_vars

----------------------------------------------------------------------------
(* The application's error channel driven by handler attachment,           *)
(* callback() and emitted errors (SpecApp).  No request is in flight: the  *)
(* channel depends on nothing a request does.                              *)

notApp == <<middleware, composed, stack, lastThrow, index, mode, pc, last, prom,
            log, term, outcome, res, ctx, heap, seen>>

\* app.on('error', handler) with a handler of the user's
On ==
  /\ Len(app.listeners) < MaxListeners
  /\ app' = [app EXCEPT !.listeners = Append(@, "custom")]
  /\ UNCHANGED notApp

\* app.silent = b
SetSilent(b) ==
  /\ app.silent # b
  /\ app' = [app EXCEPT !.silent = b]
  /\ UNCHANGED notApp

\* app.emit('error', err); without a listener the emitter throws
Emit(err) ==
  /\ app' = [app EXCEPT !.last =
       IF app.listeners = <<>>
       THEN [op |-> "emit", err |-> err, had |-> <<>>, silent |-> app.silent,
             ran |-> <<>>, logged |-> 0, threw |-> "unhandled 'error' event"]
       ELSE RunListeners(app.listeners, app.silent, err,
                         [op |-> "emit", err |-> err, had |-> app.listeners,
                          silent |-> app.silent, ran |-> <<>>, logged |-> 0,
                          threw |-> "none"])]
  /\ UNCHANGED notApp

\* app.onerror(err) called as a function
CallOnerror(err) ==
  /\ app' = [app EXCEPT !.last =
       LET o == Onerror(app.silent, err)
       IN [op |-> "onerror", err |-> err, had |-> app.listeners, silent |-> app.silent,
           ran |-> <<"default">>, logged |-> o.logged, threw |-> o.threw]]
  /\ UNCHANGED notApp

NextApp ==
  \/ Callback
  \/ On
  \/ \E b \in BOOLEAN : SetSilent(b)
  \/ \E err \in Errs : Emit(err)
  \/ \E err \in Errs : CallOnerror(err)

Init ==
  /\ InitPipe
  /\ res = InitRes

Next == NextPipe

Spec == Init /\ [][Next]_vars

SpecApp == Init /\ [][NextApp]_vars

----------------------------------------------------------------------------
(* Request facade (lib/request.js) over one raw request.  res.f is the     *)
(* context's facade pair extended with the raw request's url, headers and  *)
(* socket; strings are sequences of characters, '' and undefined both <<>> *)

\* position of the first c in s, 0 when there is none
Find(s, c) ==
  IF \E i \in 1..Len(s) : s[i] = c
  THEN CHOOSE i \in 1..Len(s) : s[i] = c /\ \A j \in 1..(i - 1) : s[j] # c
  ELSE 0

\* parse(this.req) of parseurl on a url that starts with '/': the pathname
\* ends at the first '?', the search runs from there to the fragment
Parse(url) ==
  LET h == Find(url, "#")
      rest == IF h = 0 THEN url ELSE SubSeq(url, 1, h - 1)
      q == Find(rest, "?")
  IN [pathname |-> IF q = 0 THEN rest ELSE SubSeq(rest, 1, q - 1),
      search |-> IF q = 0 THEN <<>> ELSE SubSeq(rest, q, Len(rest)),
      hash |-> IF h = 0 THEN <<>> ELSE SubSeq(url, h, Len(url))]

\* pathname.replace(/[?#]/g, encodeURIComponent) of url.format
RECURSIVE EscapePathname(_)
EscapePathname(s) ==
  IF s = <<>> THEN <<>>
  ELSE <<CASE Head(s) = "?" -> "%3F" [] Head(s) = "#" -> "%23" [] OTHER -> Head(s)>>
         \o EscapePathname(Tail(s))

\* search.replace('#', '%23') of url.format: the first '#' only
EscapeSearch(s) ==
  LET h == Find(s, "#")
  IN IF h = 0 THEN s ELSE [s EXCEPT ![h] = "%23"]

\* stringify(url) = url.format of a parsed url without protocol or host
Stringify(url) ==
  LET search == IF url.search # <<>> /\ Head(url.search) # "?"
                THEN <<"?">> \o url.search ELSE url.search
  IN EscapePathname(url.pathname) \o EscapeSearch(search) \o url.hash

\* get path (request.js:154-157)
GetPath(f) == Parse(f.url).pathname

\* get querystring (request.js:213-216): parse(this.req).query || ''
GetQuerystring(f) ==
  LET search == Parse(f.url).search
  IN IF search = <<>> THEN <<>> ELSE Tail(search)

\* faulty variant: the path replaces the whole url
SetPathWholeUrl(f, path) ==
  IF Parse(f.url).pathname = path THEN f ELSE [f EXCEPT !.url = path]

\* set path (request.js:166-177)
SetPath(f, path) ==
  LET url == Parse(f.url)
  IN IF url.pathname = path THEN f
     ELSE [f EXCEPT !.url = Stringify([url EXCEPT !.pathname = path])]

\* set querystring (request.js:225-237)
SetQuerystring(f, str) ==
  LET url == Parse(f.url)
  IN IF url.search = <<"?">> \o str THEN f
     ELSE [f EXCEPT !.url = Stringify([url EXCEPT !.search = str])]

RequestFields == {"host", ":authority", "x-forwarded-host", "x-forwarded-proto",
                  "x-forwarded-for", "if-none-match", "referrer", "referer"}

\* the facades of a context over a raw request for url.  ip is this[IP];
\* memoizedURL is not set yet, read is the result of the last getter read
\* (none yet).  Bookkeeping, not program
\* state: ipFirst is what the first read of ip returned, ipSet the value
\* last assigned to ip
NewRequest(url) ==
  [url |-> url, reqHeaders |-> [h \in RequestFields |-> <<>>],
   proxy |-> FALSE, encrypted |-> FALSE, remoteAddress |-> <<>>,
   ip |-> <<>>, memoizedURL |-> [set |-> FALSE, hostname |-> <<>>], etag |-> <<>>,
   read |-> [prop |-> "none"],
   ipFirst |-> [done |-> FALSE, value |-> <<>>],
   ipSet |-> [done |-> FALSE, value |-> <<>>]]
    @@ NewFacade(1)

\* ctx.path = path
QSetPath(path) ==
  /\ Len(SetPath(Before, path).url) <= MaxUrl
  /\ res' = Snapshot("path", path, SetPath(Before, path))
  /\ UNCHANGED pipeVars

\* ctx.querystring = str
QSetQuerystring(str) ==
  /\ Len(SetQuerystring(Before, str).url) <= MaxUrl
  /\ res' = Snapshot("querystring", str, SetQuerystring(Before, str))
  /\ UNCHANGED pipeVars

InitUrl ==
  /\ InitPipe
  /\ \E url \in {<<"/">>, <<"/", "a", "?", "b">>} :
       res = [f |-> NewRequest(url), op |-> "new", arg |-> "none",
              pre |-> NewRequest(url)]

NextUrl ==
  \/ \E path \in {<<"/">>, <<"/", "a">>, <<"/", "a", "?">>, <<"/", "#">>} :
       QSetPath(path)
  \/ \E str \in {<<>>, <<"b">>, <<"a", "#">>, <<"#", "#">>} :
       QSetQuerystring(str)

SpecUrl == InitUrl /\ [][NextUrl]_vars

----------------------------------------------------------------------------
(* Proxy-dependent getters of the request facade (SpecProxy)               *)

Http == <<"h", "t", "t", "p">>
Https == <<"h", "t", "t", "p", "s">>

\* s without its trailing, or its leading, white space
RECURSIVE TrimRight(_)
TrimRight(s) ==
  IF s # <<>> /\ s[Len(s)] = " " THEN TrimRight(SubSeq(s, 1, Len(s) - 1)) ELSE s

RECURSIVE TrimLeft(_)
TrimLeft(s) == IF s # <<>> /\ Head(s) = " " THEN TrimLeft(Tail(s)) ELSE s

\* s.split(/\s*,\s*/, 1)[0]
FirstToken(s) ==
  LET c == Find(s, ",")
  IN IF c = 0 THEN s ELSE TrimRight(SubSeq(s, 1, c - 1))

\* s.split(/\s*,\s*/)
RECURSIVE Split(_)
Split(s) ==
  LET c == Find(s, ",")
  IN IF c = 0 THEN <<s>>
     ELSE <<TrimRight(SubSeq(s, 1, c - 1))>>
            \o Split(TrimLeft(SubSeq(s, c + 1, Len(s))))

\* faulty variant: X-Forwarded-Host is read whatever app.proxy says
HostAlwaysForwarded(f) ==
  LET forwarded == ReqGet(f, "x-forwarded-host")
      host == IF forwarded # <<>> THEN forwarded ELSE ReqGet(f, "host")
  IN IF host = <<>> THEN <<>> ELSE FirstToken(host)

\* get host (request.js:275-288)
Host(f) ==
  LET forwarded == IF f.proxy THEN ReqGet(f, "x-forwarded-host") ELSE <<>>
      authority == IF forwarded = <<>> /\ f.httpVersionMajor >= 2
                   THEN ReqGet(f, ":authority") ELSE forwarded
      host == IF authority = <<>> THEN ReqGet(f, "host") ELSE authority
  IN IF host = <<>> THEN <<>> ELSE FirstToken(host)

\* get protocol (request.js:442-450)
Protocol(f) ==
  IF f.encrypted THEN Https
  ELSE IF ~f.proxy THEN Http
  ELSE LET proto == ReqGet(f, "x-forwarded-proto")
       IN IF proto # <<>> THEN FirstToken(proto) ELSE Http

\* get URL (request.js:315-329): parsed on the first read, then kept.
\* new URL(`${protocol}://${host}${originalUrl}`).hostname is the bracketed
\* part of an IPv6 host; a host the URL parser rejects leaves an object
\* without hostname
GetURL(f) ==
  LET host == Host(f)
      close == Find(host, "]")
  IN IF f.memoizedURL.set THEN f
     ELSE [f EXCEPT !.memoizedURL =
             [set |-> TRUE,
              hostname |-> IF host # <<>> /\ Head(host) = "[" /\ close # 0
                           THEN SubSeq(host, 1, close) ELSE <<>>]]

\* get hostname (request.js:299-305): the request after the read, its read
\* field holding the value returned
GetHostname(f) ==
  LET host == Host(f)
  IN IF host = <<>> THEN [f EXCEPT !.read = [prop |-> "hostname", value |-> <<>>]]
     ELSE IF Head(host) = "["
     THEN [GetURL(f) EXCEPT
             !.read = [prop |-> "hostname", value |-> GetURL(f).memoizedURL.hostname]]
     ELSE LET colon == Find(host, ":")
          IN [f EXCEPT !.read =
                [prop |-> "hostname",
                 value |-> IF colon = 0 THEN host ELSE SubSeq(host, 1, colon - 1)]]

\* get ips (request.js:478-486)
Ips(f) ==
  LET val == ReqGet(f, "x-forwarded-for")
  IN IF f.proxy /\ val # <<>> THEN Split(val) ELSE <<>>

\* this.ips[0] || this.socket.remoteAddress || ''
IpSource(f) ==
  IF Ips(f) # <<>> /\ Head(Ips(f)) # <<>> THEN Head(Ips(f)) ELSE f.remoteAddress

\* faulty variant: the address is looked up on every read
GetIpNoMemo(f) ==
  [f EXCEPT !.ip = IpSource(f), !.read = [prop |-> "ip", value |-> IpSource(f)]]

\* get ip (request.js:497-504)
GetIp(f) ==
  LET memo == IF f.ip = <<>> THEN IpSource(f) ELSE f.ip
  IN [f EXCEPT !.ip = memo, !.read = [prop |-> "ip", value |-> memo]]

\* set ip (request.js:506-509)
SetIp(f, ip) == [f EXCEPT !.ip = ip]

\* fresh(this.header, this.response.header) of the fresh package on the
\* If-None-Match request header and the ETag response header
Validate(f) ==
  LET noneMatch == ReqGet(f, "if-none-match")
  IN IF noneMatch = <<>> THEN FALSE
     ELSE IF noneMatch = <<"*">> THEN TRUE
     ELSE f.etag # <<>> /\ f.etag = noneMatch

\* faulty variant: the validation runs for every method
FreshAnyMethod(f) ==
  IF (f.statusCode >= 200 /\ f.statusCode < 300) \/ f.statusCode = 304
  THEN [value |-> Validate(f), consulted |-> TRUE]
  ELSE [value |-> FALSE, consulted |-> FALSE]

\* get fresh (request.js:340-355): the value, and whether fresh() was called
Fresh(f) ==
  IF f.method # "GET" /\ f.method # "HEAD"
  THEN [value |-> FALSE, consulted |-> FALSE]
  ELSE IF (f.statusCode >= 200 /\ f.statusCode < 300) \/ f.statusCode = 304
  THEN [value |-> Validate(f), consulted |-> TRUE]
  ELSE [value |-> FALSE, consulted |-> FALSE]

\* get stale (request.js:366-370)
Stale(f) == [value |-> ~Fresh(f).value, consulted |-> Fresh(f).consulted]

\* reading one of the getters
Getter(f, prop) ==
  CASE prop = "host" -> [f EXCEPT !.read = [prop |-> prop, value |-> Host(f)]]
    [] prop = "hostname" -> GetHostname(f)
    [] prop = "protocol" -> [f EXCEPT !.read = [prop |-> prop, value |-> Protocol(f)]]
    [] prop = "ips" -> [f EXCEPT !.read = [prop |-> prop, value |-> Ips(f)]]
    [] prop = "ip" -> GetIp(f)
    [] prop = "fresh" -> [f EXCEPT !.read = [prop |-> prop] @@ Fresh(f)]
    [] prop = "stale" -> [f EXCEPT !.read = [prop |-> prop] @@ Stale(f)]

\* middleware reads ctx.request[prop]; the first value read from ip is
\* recorded in ipFirst
QRead(prop) ==
  /\ LET g == Getter(Before, prop)
     IN res' = Snapshot(prop, "none",
                        IF prop = "ip" /\ ~g.ipFirst.done
                        THEN [g EXCEPT !.ipFirst = [done |-> TRUE, value |-> g.read.value]]
                        ELSE g)
  /\ UNCHANGED pipeVars

ForwardedFields == {"x-forwarded-host", "x-forwarded-proto", "x-forwarded-for"}
ForwardedValues == {<<>>, <<"b", " ", ",", "c">>, Https \o <<",">> \o Http}

InitProxy ==
  /\ InitPipe
  /\ \E proxy \in BOOLEAN, encrypted \in BOOLEAN, major \in {1, 2},
        host \in {<<>>, <<"a", ":", "1">>, <<"[", ":", ":", "1", "]", ":", "1">>},
        authority \in {<<>>, <<"d">>},
        forwarded \in [ForwardedFields -> ForwardedValues],
        address \in {<<>>, <<"9">>} :
       LET f == [NewRequest(<<"/">>) EXCEPT
                   !.proxy = proxy, !.encrypted = encrypted,
                   !.httpVersionMajor = major, !.remoteAddress = address,
                   !.reqHeaders =
                     [h \in RequestFields |->
                        IF h \in ForwardedFields THEN forwarded[h]
                        ELSE IF h = "host" THEN host
                        ELSE IF h = ":authority" THEN authority
                        ELSE <<>>]]
       IN res = [f |-> f, op |-> "new", arg |-> "none", pre |-> f]

NextProxy == \E prop \in {"host", "hostname", "protocol", "ips", "ip"} : QRead(prop)

SpecProxy == InitProxy /\ [][NextProxy]_vars

----------------------------------------------------------------------------
(* request.ip read and assigned while middleware rewrites X-Forwarded-For  *)
(* and the socket's remote address changes (SpecIp)                        *)

\* ctx.request.ip = ip
QSetIp(ip) ==
  /\ res' = Snapshot("setIp", ip,
                     [SetIp(Before, ip) EXCEPT !.ipSet = [done |-> TRUE, value |-> ip]])
  /\ UNCHANGED pipeVars

\* middleware assigns ctx.headers[field]
QSetHeader(field, val) ==
  /\ ReqGet(res.f, field) # val
  /\ res' = Snapshot("header", val, [Before EXCEPT !.reqHeaders[field] = val])
  /\ UNCHANGED pipeVars

\* the socket's remoteAddress changes: the peer is known once connected and
\* undefined once the socket is destroyed
QSetRemote(address) ==
  /\ res.f.remoteAddress # address
  /\ res' = Snapshot("remote", address, [Before EXCEPT !.remoteAddress = address])
  /\ UNCHANGED pipeVars

InitIp ==
  /\ InitPipe
  /\ \E proxy \in BOOLEAN :
       LET f == [NewRequest(<<"/">>) EXCEPT !.proxy = proxy]
       IN res = [f |-> f, op |-> "new", arg |-> "none", pre |-> f]

NextIp ==
  \/ QRead("ip")
  \/ \E ip \in {<<>>, <<"7">>} : QSetIp(ip)
  \/ \E val \in {<<>>, <<"1", " ", ",", "2">>, <<"3">>} :
       QSetHeader("x-forwarded-for", val)
  \/ \E address \in {<<>>, <<"9">>} : QSetRemote(address)

SpecIp == InitIp /\ [][NextIp]_vars

----------------------------------------------------------------------------
(* request.fresh and request.stale read while middleware assigns the       *)
(* response status (SpecFresh)                                             *)

InitFresh ==
  /\ InitPipe
  /\ \E method \in {"GET", "HEAD", "POST"},
        noneMatch \in {<<>>, <<"e">>, <<"f">>, <<"*">>},
        etag \in {<<>>, <<"e">>, <<"f">>} :
       LET f == [NewRequest(<<"/">>) EXCEPT
                   !.method = method, !.etag = etag,
                   !.reqHeaders["if-none-match"] = noneMatch]
       IN res = [f |-> f, op |-> "new", arg |-> "none", pre |-> f]

NextFresh ==
  \/ \E code \in {Code(200), Code(299), Code(300), Code(304), Code(199)} :
       RSetStatus(code)
  \/ \E prop \in {"fresh", "stale"} : QRead(prop)

SpecFresh == InitFresh /\ [][NextFresh]_vars

----------------------------------------------------------------------------
(* Properties of the composer and the dispatcher (checked under Spec)      *)

N == Len(stack)

KindOf(k) == stack[k + 1]

\* every middleware of the pipeline awaits or returns each next() it makes
AllAwait == \A k \in 0..(N - 1) : Awaits(KindOf(k))

Cursor(r) == index[IndexCell(r)]

\* the events of one context are in onion order: pre-next code in list order,
\* each after its predecessor's, and after post-next code of k only code of
\* middleware outside k
OnionLog(l) ==
  /\ \A p, q \in 1..Len(l) : p < q =>
       /\ (l[p][1] = "pre" /\ l[q][1] = "pre" => l[p][2] < l[q][2])
       /\ (l[p][1] = "post" => l[q][2] < l[p][2])
  /\ \A q \in 1..Len(l) : l[q][1] = "pre" /\ l[q][2] > 0 =>
       \E p \in 1..(q - 1) : l[p] = <<"pre", l[q][2] - 1>>

\* nothing inside k is still running once k ran its post-next code
PostAfterInner(r) ==
  \A p \in 1..Len(log[r]) : log[r][p][1] = "post" =>
    \A j \in 0..(N - 1) : j > log[r][p][2] => prom[r][j].st # "pending"

\* middleware k > 0 is started only by its predecessor's next()
StartedByPredecessor(r) ==
  \A k \in 1..(N - 1) : prom[r][k].st # "idle" => last[r][k - 1] # "none"

Onion(r) == OnionLog(log[r]) /\ PostAfterInner(r) /\ StartedByPredecessor(r)

\* C1 as stated: for every valid middleware list an invocation runs in onion order
C1_Original == \A r \in Reqs : Onion(r)

\* C1 (amended): when every middleware awaits or returns its next() call, one
\* invocation runs the pre-next code in list order and the post-next code in
\* exact reverse order, and no middleware starts before its predecessor
\* called next
C1_OnionOrder == AllAwait => \A r \in Reqs : Onion(r)

C1_Witness ==
  /\ stack = <<"pass", "pass">>
  /\ log[1] = <<<<"pre", 0>>, <<"pre", 1>>, <<"post", 1>>, <<"post", 0>>>>

\* middleware k has called next() a second time
SecondCall(r, k) == last[r][k] = "multi"

\* C2: a second next() by any middleware returns a promise rejected with
\* 'next() called multiple times' and neither moves the cursor nor starts,
\* reruns or resettles anything downstream, the terminal continuation included
C2_SecondNextRejects ==
  [][\A r \in Reqs, k \in Mws :
       (StepNext(r, k) /\ last[r][k] # "none") =>
          /\ last'[r][k] = "multi"
          /\ Awaited(r, k)' = Rejected(MultiErr)
          /\ index' = index
          /\ term' = term
          /\ \A j \in Idxs : j > k => pc'[r][j] = pc[r][j] /\ prom'[r][j] = prom[r][j]]_vars

C2_Witness ==
  \E r \in Reqs : /\ N = 2
                  /\ SecondCall(r, N - 1)
                  /\ mode[r] = "direct"
                  /\ prom[r][N - 1] = Rejected(MultiErr)

\* what handleRequest does with a pipeline in which next was called twice
MultiHandled(r) ==
  /\ Settled(prom[r][0]) => prom[r][0] = Rejected(MultiErr)
  /\ outcome[r].st # "pending" =>
       outcome[r] = [st |-> "onerror", err |-> MultiErr, responds |-> 0]

\* C3 as stated: whenever any middleware calls next twice, the pipeline rejects,
\* the error goes to ctx.onerror and respond is not run
C3_Original ==
  \A r \in Reqs : mode[r] = "app" /\ (\E k \in Mws : SecondCall(r, k)) => MultiHandled(r)

\* the rejection of k's next() reaches the pipeline's promise: k and every
\* middleware outside it await their next() and do not catch
Propagates(k) == \A j \in 0..k : Awaits(KindOf(j)) /\ ~Catches(KindOf(j))

\* C3 (amended): when a middleware calls next twice and it and every middleware
\* outside it await or return their next() without catching, the pipeline
\* rejects with the multiple-calls error, handleRequest passes that error to
\* ctx.onerror and respond is not run
C3_MultiToOnerror ==
  \A r \in Reqs : mode[r] = "app" =>
    \A k \in 0..(N - 1) : SecondCall(r, k) /\ Propagates(k) => MultiHandled(r)

C3_Witness ==
  \E r \in Reqs : /\ SecondCall(r, 1)
                  /\ Propagates(1)
                  /\ outcome[r] = [st |-> "onerror", err |-> MultiErr, responds |-> 0]

\* middleware k threw: synchronously in dispatch's try, or inside its async body
Threw(r, k) ==
  \/ ThrowsSync(KindOf(k)) /\ mode[r] # "idle" /\ Cursor(r) >= k
  \/ KindOf(k) = "reject" /\ pc[r][k] = 2 /\ prom[r][k].st # "pending"

Failed(r, k) == Threw(r, k) \/ prom[r][k].st = "err"

ErrorOf(r, k) == IF Threw(r, k) THEN Thrown(k) ELSE prom[r][k].err

OuterCatch(k) == \E j \in 0..(k - 1) : Catches(KindOf(j))

\* the pipeline's promise, once settled, is rejected with k's error
RejectsWith(r, k) == Settled(prom[r][0]) => prom[r][0] = Rejected(ErrorOf(r, k))

\* no middleware inside k that has not started starts after k failed
NoLateStart ==
  [][\A r \in Reqs, k \in Mws, j \in Mws :
       (k < N /\ j < N /\ j > k /\ Failed(r, k) /\ prom[r][j].st = "idle")
          => prom'[r][j].st = "idle"]_vars

\* a middleware that failed without having called next leaves everything
\* inside it unstarted
NothingInsideStarted(r, k) ==
  last[r][k] = "none" => \A j \in 0..(N - 1) : j > k => prom[r][j].st = "idle"

\* C4 as stated: for any list, once middleware k failed no unstarted middleware
\* inside it runs and the pipeline rejects with k's error unless an outer
\* middleware catches it
C4_Original ==
  \A r \in Reqs : \A k \in 0..(N - 1) :
    Failed(r, k) => /\ NothingInsideStarted(r, k)
                    /\ ~OuterCatch(k) => RejectsWith(r, k)

\* C4 (amended): when every middleware awaits or returns its next() call, once
\* middleware k threw or returned a rejected promise no unstarted middleware
\* inside it ever runs, and the pipeline rejects with that exact error unless
\* an outer middleware catches it
C4_ErrorShortCircuits ==
  /\ NoLateStart
  /\ [](AllAwait => \A r \in Reqs : \A k \in 0..(N - 1) :
          Failed(r, k) /\ ~OuterCatch(k) => RejectsWith(r, k))

C4_Witness ==
  \E r \in Reqs : /\ stack = <<"pass", "throwSync">>
                  /\ prom[r][0] = Rejected(Thrown(1))
                  /\ log[r] = <<<<"pre", 0>>>>

\* dispatch(N), the step after the last middleware, was made in invocation r
ReachedEnd(r) == mode[r] # "idle" /\ (N = 0 \/ last[r][N - 1] # "none")

\* C5: when the last middleware calls next (or the list is empty) a supplied
\* terminal continuation is invoked exactly once, with the invocation's own
\* context; without one that next() resolves, and so does the pipeline of an
\* empty list or of middleware that only pass through
C5_TerminalContinuation ==
  \A r \in Reqs :
    /\ mode[r] = "direct" =>
         /\ term[r].calls = (IF ReachedEnd(r) THEN 1 ELSE 0)
         /\ ReachedEnd(r) => term[r].ctx = r /\ prom[r][N] = Resolved
    /\ mode[r] # "direct" => term[r].calls = 0
    /\ mode[r] = "app" /\ ReachedEnd(r) => prom[r][N] = Resolved
    /\ mode[r] = "app" /\ (\A k \in 0..(N - 1) : KindOf(k) = "pass") /\ Settled(prom[r][0])
         => prom[r][0] = Resolved

C5_Witness ==
  \E r \in Reqs : /\ mode[r] = "direct"
                  /\ N = 2
                  /\ term[r] = [calls |-> 1, ctx |-> r]
                  /\ SecondCall(r, 1)

\* a step taken by invocation r
StepOf(r) ==
  \/ \E m \in {"app", "direct"} : Invoke(r, m)
  \/ \E k \in Mws : StepLog(r, k) \/ StepNext(r, k) \/ StepAwait(r, k) \/ StepThrow(r, k)
  \/ HandleSettled(r)

\* everything invocation q owns
Owned(q) == <<index[IndexCell(q)], mode[q], pc[q], last[q], prom[q], log[q],
              term[q], outcome[q]>>

Invalid(arg) == ~arg.isArray \/ \E j \in 1..Len(arg.elems) : arg.elems[j] \notin Kinds

\* C7: compose throws a TypeError for a non-array or an array with a
\* non-function element, returning no pipeline and running nothing; app.use
\* throws a TypeError for a non-function and leaves the middleware list as it was
C7_ConstructionErrors ==
  /\ [][/\ \A arg \in DirectArgs \cup {Arr(middleware)} :
             Compose(arg) /\ Invalid(arg) =>
               /\ lastThrow' \in {"TypeError: Middleware stack must be an array!",
                                  "TypeError: Middleware must be composed of functions!"}
               /\ ~composed'
               /\ UNCHANGED <<stack, mode, pc, prom, log>>
        /\ Use(NotFn) =>
             /\ lastThrow' = "TypeError: middleware must be a function!"
             /\ middleware' = middleware]_vars
  /\ [](/\ \A j \in 1..Len(middleware) : middleware[j] \in Kinds
        /\ \A j \in 1..Len(stack) : stack[j] \in Kinds
        /\ \A r \in Reqs : mode[r] # "idle" => composed)

C7_Witness ==
  /\ lastThrow = "TypeError: Middleware must be composed of functions!"
  /\ ~composed
  /\ middleware = <<"pass">>

\* what handleRequest does once the pipeline's promise has settled
Handled(r) ==
  IF prom[r][0].st = "ok"
  THEN [st |-> "responded", err |-> NoErr, responds |-> 1]
  ELSE [st |-> "onerror", err |-> prom[r][0].err, responds |-> 0]

\* C13: handleRequest sets the raw status code to 404 before any middleware of
\* the request runs; when the pipeline resolves, respond(ctx) is invoked once,
\* and when it rejects, ctx.onerror is invoked with the rejection error and
\* respond is not invoked for that request, then or later
C13_HandleRequest ==
  /\ [][\A r \in Reqs :
          /\ Invoke(r, "app") =>
               /\ log[r] = <<>> /\ \A i \in Idxs : pc[r][i] = 0
               /\ ctx'[r].statusCode = 404
          /\ HandleSettled(r) => outcome'[r] = Handled(r)
          /\ outcome[r].st # "pending" => outcome'[r] = outcome[r]]_vars
  /\ [](\A r \in Reqs :
          /\ mode[r] = "app" => ctx[r].statusCode = 404
          /\ outcome[r].st = "pending" => outcome[r].responds = 0
          /\ outcome[r].st # "pending" =>
               mode[r] = "app" /\ Settled(prom[r][0]) /\ outcome[r] = Handled(r))

C13_Witness ==
  \E r \in Reqs : /\ outcome[r] = [st |-> "onerror", err |-> Thrown(0), responds |-> 0]
                  /\ ctx[r].statusCode = 404
                  /\ stack = <<"reject">>
                  /\ log[r] = <<<<"pre", 0>>>>

\* middleware k of invocation r has run its pre-next code
PreRan(r, k) == \E p \in 1..Len(log[r]) : log[r][p] = <<"pre", k>>

\* the marks of the middleware of request r before k
MarksBefore(r, k) == {<<r, j>> : j \in 0..(k - 1)}

\* C17: every context createContext builds has its own, initially empty state
\* bag and its own request and response facades; what a middleware writes to
\* ctx.state is there for the later middleware of the same request, and under
\* every interleaving of two requests nothing written through one context is
\* read through the other
C17_ContextIsolation ==
  /\ [][\A r \in Reqs : Invoke(r, "app") =>
          \A o \in Created(ctx'[r]) :
            /\ heap'[o] = {}
            /\ \A q \in Reqs \ {r} : o \notin Created(ctx[q])]_vars
  /\ [](\A r \in Reqs : mode[r] = "app" =>
          /\ \A q \in Reqs \ {r} : Created(ctx[r]) \cap Created(ctx[q]) = {}
          /\ \A o \in Created(ctx[r]) : \A m \in heap[o] : m[1] = r
          /\ \A k \in 0..(N - 1) :
               IF PreRan(r, k)
               THEN /\ seen[r][k].state = MarksBefore(r, k)
                    /\ seen[r][k].facades = MarksBefore(r, k)
               ELSE seen[r][k] = NotRead)

C17_Witness ==
  /\ N = 2
  /\ mode[1] = "app" /\ mode[2] = "app"
  /\ seen[1][1].state = {<<1, 0>>}
  /\ seen[2][1].state = {<<2, 0>>}
  /\ heap[ctx[1].state] = {<<1, 0>>, <<1, 1>>}

\* middleware k of invocation r was started and has neither returned nor failed
Executing(r, k) ==
  /\ k < N
  /\ prom[r][k].st \notin {"idle", "err"}
  /\ pc[r][k] <= Len(Script(KindOf(k)))

\* C28: when every middleware awaits or returns its next() call, the
\* pipeline's promise is settled only when every middleware that was
\* started has finished, so respond(ctx) and ctx.onerror run for a request
\* only when none of its middleware is still executing
C28_SettlesAfterAll ==
  AllAwait =>
    \A r \in Reqs :
      (Settled(prom[r][0]) \/ outcome[r].st # "pending") =>
        \A k \in Mws : ~Executing(r, k)

\* respond ran after both middleware finished their post-next code
C28_Witness ==
  \E r \in Reqs :
    /\ stack = <<"pass", "catch">>
    /\ outcome[r].st = "responded"
    /\ log[r] = <<<<"pre", 0>>, <<"pre", 1>>, <<"post", 1>>, <<"post", 0>>>>
    /\ \A k \in 0..1 : prom[r][k] = Resolved /\ ~Executing(r, k)

----------------------------------------------------------------------------
(* Properties of the response facade (checked under SpecResponse).        *)
(* res.pre is the facade before the last operation, res.f the facade after *)

\* no body and none of the body headers
BodyStripped(f) ==
  /\ f.body = NullBody
  /\ \A h \in {"content-type", "content-length", "transfer-encoding"} : f.header[h] = Absent

\* the last operation assigned the body-forbidden status code c
AssignedEmptyStatus(c) == res.op = "status" /\ res.arg = Code(c)

\* C8 as stated, for responses whose headers are not sent: for every status in
\* {204, 205, 304}, a body assigned before or after that status leaves the
\* facade with a null body and no Content-Type, Content-Length or
\* Transfer-Encoding
C8_Original ==
  \A c \in EmptyCodes :
    /\ AssignedEmptyStatus(c) /\ ~res.pre.headersSent /\ ~IsNullish(res.pre.body)
         => BodyStripped(res.f)
    /\ (/\ res.op = "body" /\ ~IsNullish(res.arg) /\ ~res.pre.headersSent
        /\ res.pre.byUser /\ res.pre.statusCode = c)
         => BodyStripped(res.f)

\* C8 (amended): for every status in {204, 205, 304}, on a response whose
\* headers are not sent, assigning that status after a truthy body (a non-empty
\* string, a buffer, a stream, a truthy JSON value) leaves the facade with that
\* status, a null body and no Content-Type, Content-Length or Transfer-Encoding
C8_EmptyStatusStripsBody ==
  \A c \in EmptyCodes :
    AssignedEmptyStatus(c) /\ ~res.pre.headersSent /\ Truthy(res.pre.body)
      => BodyStripped(res.f) /\ res.f.statusCode = c

C8_Witness ==
  /\ AssignedEmptyStatus(205)
  /\ res.pre.body = Body("string", <<"<", "p">>)
  /\ res.pre.header = [h \in HeaderFields |->
                         CASE h = "content-type" -> "text/html; charset=utf-8"
                           [] h = "content-length" -> "2"
                           [] OTHER -> "chunked"]
  /\ BodyStripped(res.f)

\* C9: assigning a non-null body (headers not sent) sets the status to 200
\* when middleware never assigned a status to the response, and leaves the
\* status as it was when middleware did
C9_BodyDefaultsStatus ==
  (res.op = "body" /\ ~IsNullish(res.arg) /\ ~res.pre.headersSent) =>
     res.f.statusCode = (IF res.pre.userStatus THEN res.pre.statusCode ELSE 200)

\* the Content-Type the shape of a body stands for
Inferred(val) ==
  CASE val.t = "string" ->
         IF LooksLikeHtml(val.s) THEN "text/html; charset=utf-8"
         ELSE "text/plain; charset=utf-8"
    [] val.t \in {"buffer", "stream"} -> "application/octet-stream"
    [] OTHER -> "application/json; charset=utf-8"

\* C10: a body assignment (headers not sent) sets the Content-Type its shape
\* stands for when none was set, and keeps a Content-Type that was set before,
\* for every body shape
C10_TypeInferredOnlyIfUnset ==
  (res.op = "body" /\ ~IsNullish(res.arg) /\ ~res.pre.headersSent) =>
     res.f.header["content-type"] =
       (IF res.pre.header["content-type"] = Absent THEN Inferred(res.arg)
        ELSE res.pre.header["content-type"])

----------------------------------------------------------------------------
(* Properties of the mutators once the head is out (checked under          *)
(* SpecMutators)                                                           *)

MutatorOps == {"status", "body", "set", "append", "remove", "vary", "type", "length"}

\* the last operation was a mutator called with the headers already sent
MutatedAfterSent == res.op \in MutatorOps /\ res.pre.headersSent

SameStatusAndHeaders ==
  /\ res.f.statusCode = res.pre.statusCode
  /\ res.f.statusMessage = res.pre.statusMessage
  /\ res.f.header = res.pre.header
  /\ res.f.hseq = res.pre.hseq

\* C11 as stated: once headers are sent, every mutator leaves status code,
\* stored body and headers unchanged and raises no error
C11_Original ==
  MutatedAfterSent =>
    /\ SameStatusAndHeaders
    /\ res.f.body = res.pre.body
    /\ res.f.threw = "none"

\* C11 (amended): once headers are sent, every mutator (status setter, body
\* setter, set, append, remove, vary, type and length setters) leaves status
\* code and headers unchanged and raises no error; the stored body is left
\* unchanged by all of them but the body setter, which stores the value it
\* is given
C11_NoOpOnceSent ==
  MutatedAfterSent =>
    /\ SameStatusAndHeaders
    /\ res.f.threw = "none"
    /\ res.f.body = (IF res.op = "body" THEN res.arg ELSE res.pre.body)

C11_Witness ==
  /\ MutatedAfterSent
  /\ res.op = "length"
  /\ res.pre.header["content-length"] = "2"
  /\ res.pre.hseq["link"] = <<"a", "a">>
  /\ res.f.header = res.pre.header

----------------------------------------------------------------------------
(* Properties of redirect (checked under SpecRedirect)                     *)

\* the last operation was redirect(url, alt) on a response whose headers
\* were not sent
Redirected == res.op = "redirect" /\ ~res.pre.headersSent

\* the request's referrer, under either spelling of the header
Referrer == IF res.pre.reqHeaders["referrer"] # <<>> THEN res.pre.reqHeaders["referrer"]
            ELSE res.pre.reqHeaders["referer"]

\* the target the claim names for redirect(url, alt)
Resolved12(url, alt) ==
  IF url # Back THEN url
  ELSE IF Referrer # <<>> THEN Referrer
  ELSE IF alt # NoAlt THEN alt
  ELSE <<"/">>

HtmlSpecial == {"&", "<", ">", "\"", "'"}

\* C12: after redirect(url, alt) with headers not sent, Location is the
\* resolved target ('back': the referrer if present, else alt, else '/'), the
\* status is kept if it was a redirect code and is 302 otherwise, and the body
\* is a non-null notice: HTML with the target escaped for a client that
\* accepts html, plain text otherwise
C12_Redirect ==
  Redirected =>
    LET target == Resolved12(res.arg[1], res.arg[2])
    IN /\ res.f.hseq["location"] = target
       /\ res.f.statusCode = (IF res.pre.statusCode \in RedirectCodes
                              THEN res.pre.statusCode ELSE 302)
       /\ res.f.body.t = "string"
       /\ IF res.pre.acceptsHtml
          THEN /\ res.f.header["content-type"] = "text/html; charset=utf-8"
               /\ res.f.body.s = HtmlNotice(target)
               /\ \A j \in 1..Len(res.f.body.s) : res.f.body.s[j] \notin HtmlSpecial
          ELSE /\ res.f.header["content-type"] = "text/plain; charset=utf-8"
               /\ res.f.body.s = <<"Redirecting to ">> \o target \o <<".">>

C12_Witness ==
  /\ Redirected
  /\ res.arg = <<Back, <<"/", "a">>>>
  /\ Referrer = <<"h", "'">>
  /\ res.pre.acceptsHtml
  /\ res.pre.statusCode = 404
  /\ res.f.statusCode = 302
  /\ res.f.body.s = <<"Redirecting to <a href=\"", "h", "&#39;", "\">", "h", "&#39;", "</a>.">>

\* the last operation assigned a status the setter's assertions refuse
InvalidStatusAssigned ==
  res.op = "status" /\ (~res.arg.isInt \/ res.arg.n < 100 \/ res.arg.n > 999)

AssertionErrors == {"AssertionError: status code must be a number",
                    "AssertionError: invalid status code"}

\* what an invalid status assignment must leave as it was
StatusStateKept ==
  /\ res.f.statusCode = res.pre.statusCode
  /\ res.f.statusMessage = res.pre.statusMessage
  /\ res.f.explicitStatus = res.pre.explicitStatus
  /\ res.f.body = res.pre.body
  /\ res.f.header = res.pre.header
  /\ res.f.hseq = res.pre.hseq

StatusInRange == res.f.statusCode \in 100..999

\* C20 as stated: the status code is always an integer in 100..999, and
\* assigning a non-integer or out-of-range status raises an assertion error and
\* leaves status code, status message, explicit-status flag, body and headers
\* unchanged
C20_Original ==
  /\ StatusInRange
  /\ InvalidStatusAssigned => res.f.threw \in AssertionErrors /\ StatusStateKept

\* C20 (amended): the status code is always an integer in 100..999: assigning
\* a non-integer or out-of-range status raises an assertion error when the
\* headers are not sent and is ignored without an error once they are, and in
\* both cases leaves status code, status message, explicit-status flag, body
\* and headers unchanged, so after any sequence of status, body and redirect
\* operations the status stays within 100..999
C20_StatusInRange ==
  /\ StatusInRange
  /\ InvalidStatusAssigned =>
       /\ StatusStateKept
       /\ res.f.threw \in (IF res.pre.headersSent THEN {"none"} ELSE AssertionErrors)

C20_Witness ==
  /\ InvalidStatusAssigned
  /\ res.arg = Code(1000)
  /\ ~res.pre.headersSent
  /\ res.pre.statusCode = 999
  /\ res.pre.hseq["location"] = <<"http://x">>
  /\ res.f.threw = "AssertionError: invalid status code"

----------------------------------------------------------------------------
(* Properties of respond (checked under SpecRespond)                       *)

\* the last operation was respond(ctx)
Responded == res.op = "respond"

\* respond found ctx.respond true and the response writable
RespondedWritable == Responded /\ res.pre.respond /\ Writable(res.pre)

\* res.end was called once more, with this chunk
EndedWith(chunk) == res.f.ended = res.pre.ended + 1 /\ res.f.payload = chunk

\* C14: when ctx.respond is false, or res.finished is true, or a socket is
\* attached and not writable, respond(ctx) writes nothing, does not call
\* res.end and leaves status, body and headers unchanged, on every call
C14_RespondNullEffect ==
  (/\ Responded
   /\ \/ ~res.pre.respond
      \/ res.pre.finished
      \/ (res.pre.socket # "none" /\ res.pre.socket # "writable"))
    => res.f = res.pre

C14_Witness ==
  /\ Responded
  /\ res.pre.respond
  /\ res.pre.finished
  /\ res.pre.ended = 1
  /\ res.pre.payload = Body("string", <<"{", "}">>)
  /\ res.f = res.pre

NoBodyHeaders(f) ==
  \A h \in {"content-type", "content-length", "transfer-encoding"} : f.header[h] = Absent

\* C15 as stated: respond on a writable response whose status is 204, 205 or
\* 304 ends the response with no payload and without Content-Type,
\* Content-Length or Transfer-Encoding, whatever the body and the method
C15_Original ==
  RespondedWritable /\ res.pre.statusCode \in EmptyCodes
    => EndedWith(NoPayload) /\ NoBodyHeaders(res.f)

\* C15 (amended): respond on a writable response whose status is 204, 205 or
\* 304 ends the response with no payload, whatever the body and the method,
\* and, when the headers are not yet sent, without Content-Type,
\* Content-Length or Transfer-Encoding
C15_EmptyStatusNoPayload ==
  RespondedWritable /\ res.pre.statusCode \in EmptyCodes
    => /\ EndedWith(NoPayload)
       /\ ~res.pre.headersSent => NoBodyHeaders(res.f)

C15_Witness ==
  /\ RespondedWritable
  /\ res.pre.statusCode = 304
  /\ ~res.pre.headersSent
  /\ res.pre.method = "HEAD"
  /\ res.pre.body = Body("string", <<"<", "p">>)
  /\ res.pre.header["content-length"] = "2"
  /\ EndedWith(NoPayload)
  /\ NoBodyHeaders(res.f)

\* the text the claim names for a response without a body
FallbackText(f) ==
  IF f.httpVersionMajor >= 2 THEN Digits(f.statusCode)
  ELSE IF f.statusMessage # Undefined THEN <<f.statusMessage>>
  ELSE IF StatusMessage(f.statusCode) # Undefined THEN <<StatusMessage(f.statusCode)>>
  ELSE Digits(f.statusCode)

\* C16: respond on a writable response with an absent body, a status that is
\* not body-forbidden and a method other than HEAD ends the response with a
\* text body (the numeric code for HTTP major version 2 or higher, else the
\* status message or, failing that, the numeric code) and, if headers are not
\* yet sent, sets Content-Type to text and Content-Length to the byte length of
\* that body; a request no middleware touched is answered with status 404
C16_StatusBody ==
  /\ (/\ RespondedWritable
      /\ IsNullish(res.pre.body)
      /\ res.pre.statusCode \notin EmptyCodes
      /\ res.pre.method # "HEAD")
       => /\ EndedWith(Body("string", FallbackText(res.pre)))
          /\ res.f.statusCode = res.pre.statusCode
          /\ ~res.pre.headersSent =>
               /\ res.f.header["content-type"] = "text/plain; charset=utf-8"
               /\ res.f.header["content-length"] = ToString(ByteLength(FallbackText(res.pre)))
  /\ (/\ RespondedWritable
      /\ res.pre.method # "HEAD"
      /\ \E major \in {1, 2} :
           res.pre = [NewFacade(major) EXCEPT !.socket = res.pre.socket])
       => /\ res.f.statusCode = 404
          /\ res.f.ended = 1
          /\ res.f.payload.s \in {<<"Not Found">>, <<"4", "0", "4">>}

C16_Witness ==
  /\ RespondedWritable
  /\ res.pre = NewFacade(1)
  /\ res.f.statusCode = 404
  /\ EndedWith(Body("string", <<"Not Found">>))
  /\ res.f.header["content-length"] = "9"

----------------------------------------------------------------------------
(* Properties of the error channel (checked under SpecApp)                 *)

\* the default handler ran in the last call or emission
DefaultRan ==
  /\ app.last.op # "none"
  /\ \E j \in 1..Len(app.last.ran) : app.last.ran[j] = "default"

\* the default handler is to write err to the error stream
Loggable(err, silent) == err.status # 404 /\ ~err.expose /\ ~silent

\* C18: the default error handler writes an error to the error stream exactly
\* when its status is not 404, it is not flagged expose and the silent flag is
\* not set; given a value that is not an Error it throws a TypeError and
\* writes nothing
C18_DefaultHandler ==
  DefaultRan =>
    IF app.last.err.isError
    THEN /\ app.last.threw = "none"
         /\ app.last.logged = (IF Loggable(app.last.err, app.last.silent) THEN 1 ELSE 0)
    ELSE /\ app.last.threw = "TypeError: non-error thrown"
         /\ app.last.logged = 0

C18_Witness ==
  /\ app.last.op = "onerror"
  /\ app.last.err = [isError |-> TRUE, status |-> 500, expose |-> FALSE]
  /\ ~app.last.silent
  /\ app.last.logged = 1
  /\ app.silent

\* an error was emitted while a custom handler was attached
EmittedWithCustom ==
  /\ app.last.op = "emit"
  /\ \E j \in 1..Len(app.last.had) : app.last.had[j] = "custom"

\* C19 as stated: with a custom 'error' handler attached, in whatever order the
\* attachment and callback() occurred, the default handler is not invoked for
\* an error emitted afterwards
C19_Original == EmittedWithCustom => ~DefaultRan

\* C19 (amended): a custom 'error' handler attached before callback() fully
\* overrides default logging: callback() attaches no default handler and the
\* default handler is not invoked for any error emitted afterwards; the
\* default handler is attached only by a callback() that finds no listener
C19_CustomOverrides ==
  /\ EmittedWithCustom /\ app.last.had[1] = "custom" => ~DefaultRan /\ app.last.logged = 0
  /\ \A j \in 1..Len(app.listeners) : app.listeners[j] = "default" => j = 1 /\ composed

C19_Witness ==
  /\ EmittedWithCustom
  /\ composed
  /\ app.last.had = <<"custom">>
  /\ app.last.ran = <<"custom">>
  /\ app.last.err = [isError |-> TRUE, status |-> 500, expose |-> FALSE]
  /\ ~app.last.silent

----------------------------------------------------------------------------
(* Claims about the request facade                                         *)

PathAssigned == res.op = "path"
QuerystringAssigned == res.op = "querystring"

\* a path or query string without the characters url.format escapes
Plain(s) == \A i \in 1..Len(s) : s[i] \notin {"?", "#"}

\* the statement of C21 for every path and every query string: the path
\* reads back as assigned with the query string kept, a second assignment
\* of the same query string leaves the url as the first left it, and
\* assigning the current path leaves the url alone.  Violated: '/a?' reads
\* back as '/a%3F', and '##' assigned twice grows the url's fragment
C21_Original ==
  /\ PathAssigned =>
       /\ GetPath(res.f) = res.arg
       /\ GetQuerystring(res.f) = GetQuerystring(res.pre)
  /\ QuerystringAssigned => SetQuerystring(res.f, res.arg).url = res.f.url
  /\ (PathAssigned /\ res.arg = GetPath(res.pre)) => res.f.url = res.pre.url

\* C21 (amended): for a path that starts with '/' and a query string, both
\* free of '?' and '#': after path is assigned it reads back exactly as
\* assigned and the query string reads as before; assigning the same query
\* string again leaves the url as the first assignment left it; assigning
\* the current path leaves the url unchanged
C21_RoundTrip ==
  /\ (PathAssigned /\ Plain(res.arg)) =>
       /\ GetPath(res.f) = res.arg
       /\ GetQuerystring(res.f) = GetQuerystring(res.pre)
  /\ (QuerystringAssigned /\ Plain(res.arg)) =>
       SetQuerystring(res.f, res.arg).url = res.f.url
  /\ (PathAssigned /\ res.arg = GetPath(res.pre)) => res.f.url = res.pre.url

\* a path assigned over another one with a query string present
C21_Witness ==
  /\ PathAssigned
  /\ res.arg = <<"/", "a">>
  /\ GetPath(res.pre) = <<"/">>
  /\ GetQuerystring(res.pre) = <<"b">>
  /\ res.f.url = <<"/", "a", "?", "b">>

\* the request f with other X-Forwarded-Host, -Proto and -For headers
Variants(f) ==
  {[f EXCEPT !.reqHeaders =
      [h \in RequestFields |-> IF h \in ForwardedFields THEN v[h] ELSE @[h]]] :
     v \in [ForwardedFields -> ForwardedValues]}

ReadProxyProp == res.op \in {"host", "hostname", "protocol", "ips", "ip"}

\* C22: with app.proxy false, a request and any request that differs from
\* it only in the X-Forwarded-Host, -Proto and -For headers read the same
\* host, hostname, protocol, ips and ip, and ips is empty; with app.proxy
\* true host is the first comma-separated token of a present
\* X-Forwarded-Host and protocol that of a present X-Forwarded-Proto,
\* except that protocol is 'https' whenever the socket is encrypted
C22_TrustedProxy ==
  ReadProxyProp =>
    /\ ~res.pre.proxy =>
         /\ \A g \in Variants(res.pre) : Getter(g, res.op).read = res.f.read
         /\ res.op = "ips" => res.f.read.value = <<>>
    /\ (res.pre.proxy /\ res.op = "host"
          /\ ReqGet(res.pre, "x-forwarded-host") # <<>>) =>
         res.f.read.value = FirstToken(ReqGet(res.pre, "x-forwarded-host"))
    /\ (res.pre.proxy /\ res.op = "protocol" /\ ~res.pre.encrypted
          /\ ReqGet(res.pre, "x-forwarded-proto") # <<>>) =>
         res.f.read.value = FirstToken(ReqGet(res.pre, "x-forwarded-proto"))
    /\ (res.op = "protocol" /\ res.pre.encrypted) => res.f.read.value = Https

\* host read as 'a:1' from the Host header although X-Forwarded-Host is
\* 'b ,c' and the proxy is not trusted
C22_Witness ==
  /\ res.op = "host"
  /\ ~res.pre.proxy
  /\ ReqGet(res.pre, "x-forwarded-host") = <<"b", " ", ",", "c">>
  /\ ReqGet(res.pre, "x-forwarded-for") = <<"b", " ", ",", "c">>
  /\ res.f.read.value = <<"a", ":", "1">>

IpRead == res.op = "ip"

\* the first entry of ips, else the socket's remote address, else ''
FirstAddress(f) ==
  IF Ips(f) # <<>> THEN Head(Ips(f))
  ELSE IF f.remoteAddress # <<>> THEN f.remoteAddress
  ELSE <<>>

\* the statement of C25 for every value: a read returns the value last
\* assigned, else what the first read returned, else the first address.
\* Violated: a first read of '' is not kept, so a read after the socket's
\* address became known returns that address; and after ip = '' a read
\* looks the address up again
C25_Original ==
  IpRead =>
    res.f.read.value =
      IF res.pre.ipSet.done THEN res.pre.ipSet.value
      ELSE IF res.pre.ipFirst.done THEN res.pre.ipFirst.value
      ELSE FirstAddress(res.pre)

\* C25 (amended): request.ip is memoized per Context once it is not empty: a
\* read while the stored value is empty yields the first entry of ips, else
\* the socket's remote address, else the empty string, and stores it; once
\* a non-empty value was read or assigned every later read returns it,
\* whatever happens to X-Forwarded-For or to the socket address, until ip is
\* assigned again; nothing but a read or an assignment changes the stored
\* value
C25_IpMemoized ==
  /\ IpRead =>
       /\ res.f.read.value =
            IF res.pre.ip # <<>> THEN res.pre.ip ELSE FirstAddress(res.pre)
       /\ res.f.ip = res.f.read.value
  /\ res.op = "setIp" => res.f.ip = res.arg
  /\ res.op \in {"header", "remote"} => res.f.ip = res.pre.ip

\* a read that returns the memoized '1' although X-Forwarded-For is now '3'
C25_Witness ==
  /\ IpRead
  /\ res.pre.proxy
  /\ res.pre.ipFirst = [done |-> TRUE, value |-> <<"1">>]
  /\ ~res.pre.ipSet.done
  /\ ReqGet(res.pre, "x-forwarded-for") = <<"3">>
  /\ res.pre.remoteAddress = <<"9">>
  /\ res.f.read.value = <<"1">>

FreshRead == res.op \in {"fresh", "stale"}

\* the method is GET or HEAD and the response status is 2xx or 304
Validatable(f) ==
  /\ f.method \in {"GET", "HEAD"}
  /\ f.statusCode \in (200..299) \cup {304}

\* C26: fresh is false and stale is true for a request whose method is
\* neither GET nor HEAD or whose response status is neither 2xx nor 304,
\* the conditional headers are validated in the remaining case and only
\* then, and stale is the negation of fresh
C26_FreshOnlyValidatable ==
  FreshRead =>
    /\ ~Validatable(res.pre) => res.f.read.value = (res.op = "stale")
    /\ res.f.read.consulted <=> Validatable(res.pre)
    /\ res.op = "stale" => res.f.read.value = ~Getter(res.pre, "fresh").read.value

\* stale read as true on a POST with status 200 and If-None-Match: *
C26_Witness ==
  /\ res.op = "stale"
  /\ res.pre.method = "POST"
  /\ res.pre.statusCode = 200
  /\ ReqGet(res.pre, "if-none-match") = <<"*">>
  /\ res.f.read.value
  /\ ~res.f.read.consulted

----------------------------------------------------------------------------
(* Claims about respond(ctx), continued                                    *)

\* respond ran for a HEAD request on a writable response whose status
\* allows a body
RespondedHead ==
  /\ RespondedWritable
  /\ res.pre.method = "HEAD"
  /\ res.pre.statusCode \notin EmptyCodes

\* the statement of C23 for every JSON value.  Violated: a body of 0 is a
\* JSON value, but isJSON(0) is false and no Content-Length is set
C23_Original ==
  RespondedHead =>
    /\ EndedWith(NoPayload)
    /\ ~res.f.piped
    /\ (~res.pre.headersSent /\ res.pre.body.t = "json") =>
         res.f.header["content-length"] = ToString(ByteLength(res.pre.body.s))

\* C23 (amended): respond for a HEAD request on a writable response whose
\* status is not body-forbidden ends the response without payload for every
\* body shape, and first sets Content-Length to the byte length of the
\* body's JSON serialization if headers are not yet sent and the body is a
\* truthy value that is no string, buffer or stream; for a falsy JSON value
\* (0, false) it leaves the headers as they are
C23_HeadNoPayload ==
  RespondedHead =>
    /\ EndedWith(NoPayload)
    /\ ~res.f.piped
    /\ (~res.pre.headersSent /\ res.pre.body.t = "json" /\ Truthy(res.pre.body)) =>
         res.f.header["content-length"] = ToString(ByteLength(res.pre.body.s))
    /\ (res.pre.body.t = "json" /\ ~Truthy(res.pre.body)) =>
         res.f.header = res.pre.header

\* HEAD with the body {} : the response is ended without payload and with
\* Content-Length 2
C23_Witness ==
  /\ RespondedHead
  /\ ~res.pre.headersSent
  /\ res.pre.body = Body("json", <<"{", "}">>)
  /\ EndedWith(NoPayload)
  /\ res.f.header["content-length"] = "2"

\* respond takes its stream branch: a writable response, a status that
\* allows a body, a method other than HEAD and a stream body
PipesStream(f) ==
  /\ f.respond /\ Writable(f)
  /\ f.statusCode \notin EmptyCodes
  /\ f.method # "HEAD"
  /\ f.body.t = "stream"

\* C29: one invocation of respond(ctx) calls res.end at most once: with the
\* bypass flag set or the response not writable it returns without writing
\* anything, for a stream body it pipes the body into the response and does
\* not call res.end, and on every other path it calls res.end exactly once
\* and starts no pipe
C29_EndsAtMostOnce ==
  Responded =>
    /\ res.f.ended \in {res.pre.ended, res.pre.ended + 1}
    /\ (~res.pre.respond \/ ~Writable(res.pre)) => res.f = res.pre
    /\ PipesStream(res.pre) => res.f.piped /\ res.f.ended = res.pre.ended
    /\ (RespondedWritable /\ ~PipesStream(res.pre)) =>
         /\ res.f.ended = res.pre.ended + 1
         /\ res.f.piped = res.pre.piped

\* a stream body piped into a response on which res.end was never called
C29_Witness ==
  /\ Responded
  /\ PipesStream(res.pre)
  /\ ~res.pre.piped
  /\ res.f.piped
  /\ res.f.ended = 0

----------------------------------------------------------------------------
(* Claims about the body setter, continued                                 *)

\* C24: while the headers are not sent, after any sequence of body and
\* status assignments the Content-Length header follows the body: it is the
\* byte length of a string or buffer body, and it is absent for a stream or
\* JSON body
C24_LengthFromBody ==
  ~res.f.headersSent =>
    /\ res.f.body.t = "string" =>
         res.f.header["content-length"] = ToString(ByteLength(res.f.body.s))
    /\ res.f.body.t = "buffer" =>
         res.f.header["content-length"] = ToString(Len(res.f.body.s))
    /\ res.f.body.t \in {"stream", "json"} =>
         res.f.header["content-length"] = Absent

\* a stream assigned over the string ' <' : the length 2 of the string is gone
C24_Witness ==
  /\ res.op = "body"
  /\ res.arg = StreamBody
  /\ res.pre.body = Body("string", <<" ", "<">>)
  /\ res.pre.header["content-length"] = "2"
  /\ ~res.f.headersSent
  /\ res.f.header["content-length"] = Absent

BodyCleared == res.op = "body" /\ IsNullish(res.arg) /\ ~res.pre.headersSent

\* C27: assigning null or undefined as the body while the headers are not
\* sent removes Content-Type, Content-Length and Transfer-Encoding; a status
\* other than 204, 205 and 304 becomes 204, and one of those is kept
C27_NullBody ==
  BodyCleared =>
    /\ NoBodyHeaders(res.f)
    /\ res.f.body = res.arg
    /\ res.f.statusCode =
         IF res.pre.statusCode \in EmptyCodes THEN res.pre.statusCode ELSE 204

\* null assigned over a string body with status 200
C27_Witness ==
  /\ BodyCleared
  /\ res.arg = NullBody
  /\ res.pre.body.t = "string"
  /\ res.pre.statusCode = 200
  /\ res.pre.header["content-length"] # Absent
  /\ res.f.statusCode = 204
  /\ NoBodyHeaders(res.f)

====
